---- MODULE Spec2Model ----
(***************************************************************************)
(* The tool execution subsystem of writers_toolkit: ToolRunner             *)
(* (src/tool-runner.js, kept in src/unnamed/part_005) and the two IPC      *)
(* handlers of the main process that drive it ('start-tool-run' and        *)
(* 'stop-tool', src/unnamed/part_002).                                     *)
(*                                                                         *)
(* Strings are sequences of tokens, so that the concatenations the code    *)
(* performs (stdout += text, `ERROR: ${text}`) are sequence concatenations.*)
(* Every handler runs to completion on the one event loop of the main      *)
(* process, so each handler is one action.                                 *)
(***************************************************************************)
EXTENDS Integers, Sequences, FiniteSets, TLC

\* Bounds of the model.
MaxRuns == 2        \* 'start-tool-run' calls
MaxChunks == 1      \* data chunks the child processes write, all streams together
MaxRelayRuns == 1   \* 'start-tool-run' calls when the relay of output is studied
MaxRelayChunks == 3 \* data chunks when the relay of output is studied
MaxLiveRuns == 1    \* 'start-tool-run' calls when completion is studied
MaxLiveChunks == 3  \* data chunks when completion is studied
MaxOptions == 2     \* entries of an option mapping when the translation is studied
MaxLines == 3       \* lines of a tracking file when the created files are studied
MaxWinRuns == 2     \* runs started from the tool window
MaxWinChunks == 1   \* data chunks of the runs started from the tool window
MaxClicks == 3      \* clicks on the buttons of the tool window

VARIABLES
    uuidCount,          \* number of uuidv4() calls made so far
    runs,               \* one record per 'start-tool-run' call, in call order
    runningProcesses,   \* ToolRunner.runningProcesses: runId -> process handle
    nextTick,           \* process.nextTick queue: handles whose spawn error is queued
    budget,             \* what is left of the bounds of the model
    stopCalled,         \* history: handles on whose runId stopTool ran between the
                        \* spawn and the handle's close or error event
    stopped,            \* history: the runIds for which stopTool has returned true
    stoppedTwice,       \* history: the runIds for which stopTool has returned true
                        \* after it had returned true for them before
    handles,            \* history: every <<runId, handle>> pair ever registered
    win                 \* the tool window: the state of its renderer script and the
                        \* IPC messages in flight between it and the main process

vars == <<uuidCount, runs, runningProcesses, nextTick, budget, stopCalled, stopped, stoppedTwice, handles, win>>

----------------------------------------------------------------------------
\* Tool names, the files of appRoot/tools, options, chunks, tracking files.

JsExt == <<".", "j", "s">>

ToolJs == <<"t", "o", "o", "l">> \o JsExt                   \* an ordinary tool, installed
TokensWordsCounter == <<"tokens_words_counter">> \o JsExt   \* the special-cased tool, installed
GoneJs == <<"g", "o", "n", "e">> \o JsExt                   \* a .js name with no file
ToolPy == <<"t", "o", "o", "l", ".", "p", "y">>             \* installed, not JavaScript
GonePy == <<"g", "o", "n", "e", ".", "p", "y">>             \* not JavaScript, no file

ToolNames == { ToolJs, TokensWordsCounter, GoneJs, ToolPy, GonePy }

ToolsOnDisk == { ToolJs, TokensWordsCounter, ToolPy }

\* A value is a boolean, a number or a string: t is its typeof, b the boolean,
\* s the string (for a number, its decimal form).
Bool(b) == [t |-> "boolean", b |-> b, s |-> << >>]
Str(s) == [t |-> "string", b |-> FALSE, s |-> s]
Num(digits) == [t |-> "number", b |-> FALSE, s |-> digits]

\* An option mapping is a sequence of <<name, value>> entries in insertion order,
\* no name twice (a JavaScript object).
NoOptions == << >>
InputAndVerbose ==
    << <<<<"input_file">>, Str(<<"in.txt">>)>>, <<<<"--", "verbose">>, Bool(TRUE)>> >>

OptionMappings == { NoOptions, InputAndVerbose }

\* Option names and values for the study of the translation.
ArgNames ==
    { <<"--", "verbose">>, <<"verbose">>, <<"input_file">>, <<"output_file">>,
      <<"--", "output_tracking">>, <<"output_tracking">> }

ArgValues == { Bool(TRUE), Bool(FALSE), Str(<<"x">>), Num(<<"7">>) }

NamesOf(mapping) == { mapping[i][1] : i \in DOMAIN mapping }

\* The mappings of at most n entries.
RECURSIVE Mappings(_)
Mappings(n) ==
    IF n = 0 THEN { << >> }
    ELSE LET shorter == Mappings(n - 1)
             longest == { m \in shorter : Len(m) = n - 1 }
         IN  shorter \cup
             UNION { { Append(p[1], <<p[2], value>>) : value \in ArgValues } :
                     p \in { q \in longest \X ArgNames : q[2] \notin NamesOf(q[1]) } }

\* The options of the counting tool as the setup dialog gathers them: each of
\* input_file, save_dir, verbose and output_file is left out or has one of its
\* values (a text field left empty gives ''), in either order of insertion.
Absent == [t |-> "absent", b |-> FALSE, s |-> << >>]

CounterEntries(input, dir, verbose, output) ==
    SelectSeq(<< <<<<"input_file">>, input>>, <<<<"save_dir">>, dir>>,
                 <<<<"verbose">>, verbose>>, <<<<"output_file">>, output>> >>,
              LAMBDA entry : entry[2] # Absent)

Reverse(s) == [k \in 1 .. Len(s) |-> s[Len(s) + 1 - k]]

CounterMappings ==
    UNION { { CounterEntries(input, dir, verbose, output),
              Reverse(CounterEntries(input, dir, verbose, output)) } :
            input \in {Absent, Str(<<"in.txt">>), Str(<< >>)},
            dir \in {Absent, Str(<<"out">>), Str(<< >>)},
            verbose \in {Absent, Bool(TRUE), Bool(FALSE)},
            output \in {Absent, Str(<<"o.txt">>)} }

\* The calls of 'start-tool-run': a tool name and an option mapping.
StartInputs ==
    { [toolName |-> ToolJs, optionValues |-> InputAndVerbose],
      [toolName |-> TokensWordsCounter, optionValues |-> InputAndVerbose],
      [toolName |-> TokensWordsCounter, optionValues |-> NoOptions],
      [toolName |-> GoneJs, optionValues |-> NoOptions],
      [toolName |-> ToolPy, optionValues |-> NoOptions],
      [toolName |-> GonePy, optionValues |-> InputAndVerbose] }

Chunks == { <<"a">> }

\* A chunk of Node's warning about a package.json with no "type" field.
TypelessWarning == <<"(node:7) [", "MODULE_TYPELESS_PACKAGE_JSON", "] Warning">>
RelayChunks == Chunks \cup { TypelessWarning }

\* A path is a sequence of segments; an absolute path starts with "/".
Cwd == <<"/", "cwd">>
FilesOnDisk == { <<"/", "out", "x.txt">>, Cwd \o <<"y.txt">> }

\* A line of the tracking file: leading whitespace, a path (empty on a blank line).
NoTrackingFile == [exists |-> FALSE, readable |-> TRUE, lines |-> << >>]

TrackingFiles ==
    { NoTrackingFile,
      [exists |-> TRUE, readable |-> FALSE, lines |-> << >>],
      [exists |-> TRUE, readable |-> TRUE,
       lines |-> << [pad |-> FALSE, path |-> <<"/", "out", "x.txt">>],
                    [pad |-> TRUE, path |-> <<"/", "out", "never.txt">>],
                    [pad |-> TRUE, path |-> <<"y.txt">>],
                    [pad |-> TRUE, path |-> << >>] >>] }

\* The lines a tool may write to its tracking file: a file that is there, a
\* relative path of a file that is there, the path of a file that is not there,
\* a line of whitespace and an empty line.
TrackingLines ==
    { [pad |-> FALSE, path |-> <<"/", "out", "x.txt">>],
      [pad |-> TRUE, path |-> <<"y.txt">>],
      [pad |-> TRUE, path |-> <<"/", "out", "never.txt">>],
      [pad |-> TRUE, path |-> << >>],
      [pad |-> FALSE, path |-> << >>] }

\* The sequences of at most n lines.
RECURSIVE LineSeqs(_)
LineSeqs(n) ==
    IF n = 0 THEN { << >> }
    ELSE LET shorter == LineSeqs(n - 1) IN
         shorter \cup { Append(lines, line) :
                          lines \in { l \in shorter : Len(l) = n - 1 },
                          line \in TrackingLines }

\* The tracking file as the close handler may find it.
FilesFound ==
    { file \in TrackingFiles : ~(file.exists /\ file.readable) }
      \cup { [exists |-> TRUE, readable |-> TRUE, lines |-> lines] :
                lines \in LineSeqs(MaxLines) }

----------------------------------------------------------------------------
\* JavaScript primitives.

\* Variant: the id does not depend on the call (ids repeat).
uuidv4_fixed(count) == 1

\* uuidv4(): a value no earlier call returned; count is the number of earlier calls.
uuidv4(count) == count + 1

\* Variant: every name passes the test.
endsWith_any(s, suffix) == TRUE

\* String.prototype.endsWith
endsWith(s, suffix) ==
    /\ Len(s) >= Len(suffix)
    /\ SubSeq(s, Len(s) - Len(suffix) + 1, Len(s)) = suffix

\* Variant: the check of the tool's path always passes.
toolExists_always(toolName) == TRUE

\* fs.existsSync(path.join(appRoot, 'tools', toolName))
toolExists(toolName) == toolName \in ToolsOnDisk

\* String.prototype.startsWith
startsWith(s, prefix) ==
    /\ Len(s) >= Len(prefix)
    /\ SubSeq(s, 1, Len(prefix)) = prefix

\* String(value)
String(value) ==
    IF value.t = "boolean"
    THEN (IF value.b THEN <<"true">> ELSE <<"false">>)
    ELSE value.s

\* optionValues[name]: the values stored under name (none: undefined)
optionGet(optionValues, name) ==
    { optionValues[i][2] : i \in { j \in DOMAIN optionValues : optionValues[j][1] = name } }

\* truthiness of a value: false, 0 and '' are falsy
truthy(value) ==
    CASE value.t = "boolean" -> value.b
      [] value.t = "number" -> value.s # <<"0">>
      [] OTHER -> value.s # << >>

\* Variant: a name that is there counts, whatever its value.
optionTruthy_defined(optionValues, name) == optionGet(optionValues, name) # {}

\* truthiness of optionValues[name]; undefined is falsy
optionTruthy(optionValues, name) ==
    \E v \in optionGet(optionValues, name) : truthy(v)

\* { ...obj }: the entries of obj in a new object; `same` tells whether the
\* result is the object obj itself.
\* Variant: the object itself is used.
objectSpread_alias(obj) == [entries |-> obj, same |-> TRUE]

objectSpread(obj) == [entries |-> obj, same |-> FALSE]

\* obj[name] = value on an object: an existing key keeps its place
objectSet(obj, name, value) ==
    IF \E i \in DOMAIN obj : obj[i][1] = name
    THEN [i \in DOMAIN obj |-> IF obj[i][1] = name THEN <<name, value>> ELSE obj[i]]
    ELSE Append(obj, <<name, value>>)

\* Array.prototype.join(' ') of an array of strings
RECURSIVE join(_)
join(args) ==
    IF args = << >> THEN << >>
    ELSE IF Len(args) = 1 THEN args[1]
    ELSE args[1] \o <<" ">> \o join(Tail(args))

\* Map.prototype.set / delete / get (get gives the set of values found: none or one)
MapSet(m, k, v) == [x \in DOMAIN m \cup {k} |-> IF x = k THEN v ELSE m[x]]
MapDelete(m, k) == [x \in DOMAIN m \ {k} |-> m[x]]
MapGet(m, k) == IF k \in DOMAIN m THEN {m[k]} ELSE {}

----------------------------------------------------------------------------
\* ToolRunner (src/tool-runner.js).

AppTools == <<"/", "app", "/", "tools", "/">>
TempDir == <<"/", "tmp", "/">>

\* The state a ToolRunner method works on: the record of the run being started,
\* the registry and the nextTick queue.
NoResult == [stdout |-> << >>, stderr |-> << >>, createdFiles |-> << >>, code |-> "unset"]

NoReport == [channel |-> "none", runId |-> 0]

NewRun(hid, runId, toolName) ==
    [hid |-> hid,               \* the id 'start-tool-run' returns
     rid |-> runId,             \* the id runTool generates
     tool |-> toolName,
     argv |-> << >>,            \* spawn's argument vector
     tracking |-> << >>,        \* the run's tracking-file path
     proc |-> "none",           \* none, failing, alive, errored, closed
     started |-> FALSE,         \* the operating system created the child process
     promise |-> "pending",     \* pending, resolved, rejected
     reason |-> << >>,          \* message of the rejection's Error
     result |-> NoResult,       \* value of the resolution
     stdout |-> << >>,          \* accumulators of the promise's closure
     stderr |-> << >>,
     sink |-> << >>,            \* strings delivered to logCallback, in order
     code |-> "unset",          \* the close event's code
     killCalls |-> 0,           \* process.kill() calls on the handle
     emitted |-> << >>,         \* history: the chunks the child wrote, in order
     options |-> << >>,         \* optionValues as 'start-tool-run' received them
     file |-> NoTrackingFile,   \* history: the tracking file as the close handler found it
     returned |-> FALSE,        \* 'start-tool-run' has returned hid to its caller
     report |-> NoReport,       \* what the handler's .then/.catch reaction sends
     caller |-> << >>]          \* the caller's optionValues object as runTool leaves it

\* Variant: the message is dropped.
logCallback_drop(run, text) == run

logCallback(run, text) == [run EXCEPT !.sink = Append(@, text)]

\* Variant: resolve settles the promise again.
resolvePromise_again(run, value) == [run EXCEPT !.promise = "resolved", !.result = value]

\* Variant: the promise is resolved without the value.
resolvePromise_noValue(run, value) ==
    IF run.promise = "pending" THEN [run EXCEPT !.promise = "resolved"] ELSE run

\* Variant: resolve is never called.
resolvePromise_never(run, value) == run

\* Variant: a non-zero exit code rejects.
resolvePromise_failOnCode(run, value) ==
    IF run.promise # "pending" THEN run
    ELSE IF value.code = "0"
    THEN [run EXCEPT !.promise = "resolved", !.result = value]
    ELSE [run EXCEPT !.promise = "rejected", !.reason = <<"exit code ", value.code>>]

\* resolve(value) / reject(error): a settled promise stays as it is
resolvePromise(run, value) ==
    IF run.promise = "pending"
    THEN [run EXCEPT !.promise = "resolved", !.result = value]
    ELSE run

rejectPromise(run, message) ==
    IF run.promise = "pending"
    THEN [run EXCEPT !.promise = "rejected", !.reason = message]
    ELSE run

\* One entry of the option mapping, general path.
\* Variant: a boolean under a '--' name is passed as a value.
optionArgs_boolAsValue(name, value) ==
    IF startsWith(name, <<"--">>)
    THEN <<name, String(value)>>
    ELSE IF name = <<"input_file">> \/ name = <<"output_file">>
         THEN IF name = <<"input_file">>
              THEN <<String(value)>>
              ELSE << <<"--">> \o name, String(value) >>
         ELSE << <<"--">> \o name, String(value) >>

\* Variant: input_file is passed under a flag.
optionArgs_inputFlagged(name, value) ==
    IF startsWith(name, <<"--">>)
    THEN IF value.t = "boolean"
         THEN (IF value.b THEN <<name>> ELSE << >>)
         ELSE <<name, String(value)>>
    ELSE << <<"--">> \o name, String(value) >>

optionArgs(name, value) ==
    IF startsWith(name, <<"--">>)
    THEN IF value.t = "boolean"
         THEN (IF value.b THEN <<name>> ELSE << >>)
         ELSE <<name, String(value)>>
    ELSE IF name = <<"input_file">> \/ name = <<"output_file">>
         THEN IF name = <<"input_file">>
              THEN <<String(value)>>
              ELSE << <<"--">> \o name, String(value) >>
         ELSE << <<"--">> \o name, String(value) >>

RECURSIVE buildArgs(_)
buildArgs(optionValues) ==
    IF optionValues = << >> THEN << >>
    ELSE optionArgs(optionValues[1][1], optionValues[1][2]) \o buildArgs(Tail(optionValues))

\* spawn('node', args) and runningProcesses.set(runId, process): the handle is
\* registered whether or not the operating system created the process; a failed
\* spawn queues the handle's error event on the nextTick queue.
\* Variant: the handle is not stored.
spawnRegistry_skip(registry, runId, h) == registry

spawnRegistry(registry, runId, h) == MapSet(registry, runId, h)

\* Variant: the number of the call is passed to the child as a last argument.
spawnProcess_numbered(st, h, runId, args, spawnOk) ==
    [run |-> [st.run EXCEPT !.argv = args \o << <<ToString(h)>> >>,
                            !.started = spawnOk,
                            !.proc = IF spawnOk THEN "alive" ELSE "failing"],
     registry |-> spawnRegistry(st.registry, runId, h),
     tick |-> IF spawnOk THEN st.tick ELSE Append(st.tick, h)]

spawnProcess(st, h, runId, args, spawnOk) ==
    [run |-> [st.run EXCEPT !.argv = args,
                            !.started = spawnOk,
                            !.proc = IF spawnOk THEN "alive" ELSE "failing"],
     registry |-> spawnRegistry(st.registry, runId, h),
     tick |-> IF spawnOk THEN st.tick ELSE Append(st.tick, h)]

\* Variant: --verbose is always passed.
counterArgs_verboseAlways(toolPath, optionValues) ==
    <<toolPath, <<"--", "text_file">>,
      String(CHOOSE v \in optionGet(optionValues, <<"input_file">>) : TRUE)>>
    \o (IF optionTruthy(optionValues, <<"save_dir">>)
        THEN << <<"--", "save_dir">>,
                String(CHOOSE v \in optionGet(optionValues, <<"save_dir">>) : TRUE) >>
        ELSE << >>)
    \o << <<"--", "verbose">> >>
    \o (IF optionTruthy(optionValues, <<"--", "output_tracking">>)
        THEN << <<"--", "output_tracking">>,
                String(CHOOSE v \in optionGet(optionValues, <<"--", "output_tracking">>) : TRUE) >>
        ELSE << >>)

\* The arguments runTokensWordsCounter builds once input_file is known to be there.
counterArgs(toolPath, optionValues) ==
    <<toolPath, <<"--", "text_file">>,
      String(CHOOSE v \in optionGet(optionValues, <<"input_file">>) : TRUE)>>
    \o (IF optionTruthy(optionValues, <<"save_dir">>)
        THEN << <<"--", "save_dir">>,
                String(CHOOSE v \in optionGet(optionValues, <<"save_dir">>) : TRUE) >>
        ELSE << >>)
    \o (IF optionTruthy(optionValues, <<"verbose">>) THEN << <<"--", "verbose">> >> ELSE << >>)
    \o (IF optionTruthy(optionValues, <<"--", "output_tracking">>)
        THEN << <<"--", "output_tracking">>,
                String(CHOOSE v \in optionGet(optionValues, <<"--", "output_tracking">>) : TRUE) >>
        ELSE << >>)

runTokensWordsCounter(st, h, toolPath, optionValues, runId, spawnOk) ==
    IF ~optionTruthy(optionValues, <<"input_file">>)
    THEN [st EXCEPT !.run = rejectPromise(
              logCallback(st.run, <<"ERROR: ", "Missing required parameter input_file">>),
              <<"Missing required parameter: input_file">>)]
    ELSE LET args == counterArgs(toolPath, optionValues)
             nodeArgs == << <<"--", "no-warnings">> >>
             logged == [st EXCEPT !.run = logCallback(st.run,
                           <<"Running command: ", "node ">> \o join(nodeArgs)
                             \o <<" ">> \o join(args))]
         IN  spawnProcess(logged, h, runId, nodeArgs \o args, spawnOk)

runJavaScriptTool(st, h, toolName, optionValues, runId, spawnOk) ==
    LET toolPath == AppTools \o toolName IN
    IF ~toolExists(toolName)
    THEN [st EXCEPT !.run = rejectPromise(
              logCallback(st.run, <<"ERROR: ", "Cannot find tool at path: ">> \o toolPath),
              <<"Tool not found: ">> \o toolPath)]
    ELSE IF toolName = TokensWordsCounter
    THEN runTokensWordsCounter(st, h, toolPath, optionValues, runId, spawnOk)
    ELSE LET args == <<toolPath>> \o buildArgs(optionValues)
             logged == [st EXCEPT !.run = logCallback(st.run,
                           <<"Running command: ", "node ">> \o join(args))]
         IN  spawnProcess(logged, h, runId, args, spawnOk)

\* runTool(toolName, optionValues, logCallback); count is the number of uuidv4()
\* calls made before it.
runTool(st, h, count, toolName, optionValues, spawnOk) ==
    LET runId == uuidv4(count)
        trackingFile == TempDir \o <<ToString(runId), ".txt">>
        copy == objectSpread(optionValues)
        options == objectSet(copy.entries, <<"--", "output_tracking">>, Str(trackingFile))
        st1 == [st EXCEPT !.run = [@ EXCEPT !.rid = runId, !.tracking = trackingFile,
                                            !.caller = IF copy.same THEN options
                                                       ELSE optionValues]]
    IN  IF endsWith(toolName, JsExt)
        THEN runJavaScriptTool(st1, h, toolName, options, runId, spawnOk)
        ELSE [st1 EXCEPT !.run = rejectPromise(
                 logCallback(
                     logCallback(@, <<"ERROR: ", "Unsupported tool type: ">> \o toolName),
                     <<"Only JavaScript (.js) tools are supported.">>),
                 <<"Unsupported tool type: ">> \o toolName)]

\* path.resolve(filePath): a relative path is taken from the working directory
pathResolve(filePath) ==
    IF filePath # << >> /\ filePath[1] = "/" THEN filePath ELSE Cwd \o filePath

\* line.trim(): the line without its surrounding whitespace
trim(line) == line.path

\* fs.existsSync(filePath) of a listed path
\* Variant: every listed path is taken to be there.
fileExists_always(filePath) == TRUE

fileExists(filePath) == filePath \in FilesOnDisk

\* fileContent.split('\n').filter(line => line.trim()).map(resolve).filter(existsSync)
RECURSIVE resolveLines(_)
resolveLines(lines) ==
    IF lines = << >> THEN << >>
    ELSE LET rest == resolveLines(Tail(lines))
             filePath == pathResolve(trim(lines[1]))
         IN  IF trim(lines[1]) # << >> /\ fileExists(filePath)
             THEN <<filePath>> \o rest
             ELSE rest

\* The stdout 'data' handler.
\* Variant: the chunk is delivered and not accumulated.
onStdoutData_noAccumulate(run, text) == logCallback(run, text)

\* Variant: the chunk is handed to the sink twice.
onStdoutData_twice(run, text) ==
    logCallback(logCallback([run EXCEPT !.stdout = @ \o text], text), text)

onStdoutData(run, text) ==
    logCallback([run EXCEPT !.stdout = @ \o text], text)

\* The stderr 'data' handler; the tokens_words_counter path keeps the module type
\* warning from the sink.
\* Variant: nothing is ever found.
includes_never(text, needle) == FALSE

includes(text, needle) == \E i \in DOMAIN text : text[i] = needle

\* Variant: a stderr chunk is delivered as it came.
onStderrData_noPrefix(run, text) ==
    LET acc == [run EXCEPT !.stderr = @ \o text] IN
    IF run.tool = TokensWordsCounter /\ includes(text, "MODULE_TYPELESS_PACKAGE_JSON")
    THEN acc
    ELSE logCallback(acc, text)

onStderrData(run, text) ==
    LET acc == [run EXCEPT !.stderr = @ \o text] IN
    IF run.tool = TokensWordsCounter /\ includes(text, "MODULE_TYPELESS_PACKAGE_JSON")
    THEN acc
    ELSE logCallback(acc, <<"ERROR: ">> \o text)

\* The 'close' handler; file is the tracking file as the handler finds it.
\* Variant: the close handler leaves the registry alone.
closeRegistry_keep(registry, runId) == registry

closeRegistry(registry, runId) == MapDelete(registry, runId)

\* fs.existsSync(trackingFile)
\* Variant: the file is taken to be there.
existsSync_always(file) == TRUE

existsSync(file) == file.exists

\* fs.readFileSync(trackingFile, 'utf8') throws when the file is not there or
\* cannot be read.
\* Variant: the read never throws (an unreadable file reads as empty).
readFileSyncThrows_never(file) == FALSE

readFileSyncThrows(file) == ~file.exists \/ ~file.readable

\* Variant: the finished marker comes before the message with the return code.
onClose_markerFirst(st, code, file) ==
    LET run0 == [st.run EXCEPT !.code = code, !.proc = "closed"]
        run1 == logCallback(run0, <<"\nTool finished with exit code: ", code>>)
        run2 == logCallback(run1, <<"\nProcess finished with return code ", code>>)
        run3 == IF existsSync(file) /\ readFileSyncThrows(file)
                THEN logCallback(run2, <<"Error reading output files list: ",
                                         IF file.exists THEN "EACCES" ELSE "ENOENT">>)
                ELSE run2
        createdFiles == IF existsSync(file) /\ ~readFileSyncThrows(file)
                        THEN resolveLines(file.lines)
                        ELSE << >>
    IN  [st EXCEPT
           !.registry = closeRegistry(st.registry, st.run.rid),
           !.run = resolvePromise(run3,
                      [stdout |-> run3.stdout, stderr |-> run3.stderr,
                       createdFiles |-> createdFiles, code |-> code])]

onClose(st, code, file) ==
    LET run0 == [st.run EXCEPT !.code = code, !.proc = "closed"]
        run1 == logCallback(run0, <<"\nProcess finished with return code ", code>>)
        run2 == logCallback(run1, <<"\nTool finished with exit code: ", code>>)
        run3 == IF existsSync(file) /\ readFileSyncThrows(file)
                THEN logCallback(run2, <<"Error reading output files list: ",
                                         IF file.exists THEN "EACCES" ELSE "ENOENT">>)
                ELSE run2
        createdFiles == IF existsSync(file) /\ ~readFileSyncThrows(file)
                        THEN resolveLines(file.lines)
                        ELSE << >>
    IN  [st EXCEPT
           !.registry = closeRegistry(st.registry, st.run.rid),
           !.run = resolvePromise(run3,
                      [stdout |-> run3.stdout, stderr |-> run3.stderr,
                       createdFiles |-> createdFiles, code |-> code])]

\* The 'error' handler.
\* Variant: the error handler leaves the registry alone.
errorRegistry_keep(registry, runId) == registry

errorRegistry(registry, runId) == MapDelete(registry, runId)

onError(st, message) ==
    [st EXCEPT
       !.registry = errorRegistry(st.registry, st.run.rid),
       !.run = rejectPromise(
                  logCallback([st.run EXCEPT !.proc = "errored"], <<"ERROR: ">> \o message),
                  message)]

\* Variant: every registered process is killed and removed.
stopTool_all(registry, runId) ==
    LET process == MapGet(registry, runId) IN
    IF process # {}
    THEN [ret |-> TRUE, registry |-> << >>,
          kill |-> { registry[id] : id \in DOMAIN registry }]
    ELSE [ret |-> FALSE, registry |-> registry, kill |-> {}]

\* Variant: true whether or not the runId is registered.
stopTool_alwaysTrue(registry, runId) ==
    [ret |-> TRUE, registry |-> MapDelete(registry, runId), kill |-> MapGet(registry, runId)]

\* Variant: the process is killed and stays registered.
stopTool_killOnly(registry, runId) ==
    LET process == MapGet(registry, runId) IN
    IF process # {}
    THEN [ret |-> TRUE, registry |-> registry, kill |-> process]
    ELSE [ret |-> FALSE, registry |-> registry, kill |-> {}]

\* stopTool(runId): what it returns, the registry it leaves and the handles it
\* calls kill() on.
stopTool(registry, runId) ==
    LET process == MapGet(registry, runId) IN
    IF process # {}
    THEN [ret |-> TRUE, registry |-> MapDelete(registry, runId), kill |-> process]
    ELSE [ret |-> FALSE, registry |-> registry, kill |-> {}]

----------------------------------------------------------------------------
\* The handlers, as actions.

Handles == DOMAIN runs
\* The ids generated so far: those a caller of 'stop-tool' can hold, and the keys
\* the registry can have.
RunIds == 1 .. uuidCount

ExitCodes == {"0", "1"}

\* No tool window is open: ToolRunner is driven directly.
NoWindow == [script |-> "none"]

Init ==
    /\ uuidCount = 0
    /\ runs = << >>
    /\ runningProcesses = << >>
    /\ nextTick = << >>
    /\ stopped = {}
    /\ stoppedTwice = {}
    /\ budget = [runs |-> MaxRuns, chunks |-> MaxChunks]
    /\ stopCalled = {}
    /\ handles = {}
    /\ win = NoWindow

\* 'start-tool-run' does not await runTool's promise: `return runId` follows the
\* call at once.
\* Variant: the handler awaits the promise before it returns.
handlerReturn_awaits(run) == [run EXCEPT !.returned = (run.promise # "pending")]

handlerReturn(run) == [run EXCEPT !.returned = TRUE]

\* The .then and .catch reactions of 'start-tool-run': they run as microtasks
\* right after the handler that settled the promise, and send on 'tool-finished'
\* or 'tool-error' with the handler's runId (when the window is there).
\* Variant: the messages carry the id ToolRunner generated.
handlerReactions_runnerId(run) ==
    [run EXCEPT !.report =
        CASE run.promise = "resolved" -> [channel |-> "tool-finished", runId |-> run.rid]
          [] run.promise = "rejected" -> [channel |-> "tool-error", runId |-> run.rid]
          [] OTHER -> @]

handlerReactions(run) ==
    [run EXCEPT !.report =
        CASE run.promise = "resolved" -> [channel |-> "tool-finished", runId |-> run.hid]
          [] run.promise = "rejected" -> [channel |-> "tool-error", runId |-> run.hid]
          [] OTHER -> @]

Registered(registry) == { <<id, registry[id]>> : id \in DOMAIN registry }

\* ipcMain.handle('start-tool-run'): generates the id it returns, calls runTool and
\* returns; a rejection of runTool's promise is caught in the same turn.
StartToolRunHandled(toolName, optionValues, spawnOk) ==
    /\ budget.runs > 0
    /\ nextTick = << >>
    /\ LET h == Len(runs) + 1
           runId == uuidv4(uuidCount)
           st == runTool([run |-> [NewRun(runId, runId, toolName)
                                     EXCEPT !.options = optionValues],
                          registry |-> runningProcesses,
                          tick |-> nextTick],
                         h, uuidCount + 1, toolName, optionValues, spawnOk)
       IN  /\ runs' = Append(runs, handlerReactions(handlerReturn(st.run)))
           /\ runningProcesses' = st.registry
           /\ nextTick' = st.tick
           /\ handles' = handles \cup Registered(st.registry)
    /\ uuidCount' = uuidCount + 2
    /\ budget' = [budget EXCEPT !.runs = @ - 1]
    /\ UNCHANGED <<stopCalled, stopped, stoppedTwice>>

StartToolRun(toolName, optionValues, spawnOk) == StartToolRunHandled(toolName, optionValues, spawnOk) /\ UNCHANGED win

\* ipcMain.handle('stop-tool'): returns toolRunner.stopTool(runId). The renderer
\* passes the id; any id generated so far may be passed.
StopToolHandled(runId) ==
    /\ nextTick = << >>
    /\ LET r == stopTool(runningProcesses, runId) IN
       /\ runningProcesses' = r.registry
       /\ runs' = [h \in Handles |->
                     IF h \in r.kill
                     THEN [runs[h] EXCEPT !.killCalls = @ + 1]
                     ELSE runs[h]]
       /\ stopped' = (IF r.ret THEN stopped \cup {runId} ELSE stopped)
       /\ stoppedTwice' = (IF r.ret /\ runId \in stopped
                           THEN stoppedTwice \cup {runId}
                           ELSE stoppedTwice)
    /\ stopCalled' = stopCalled \cup
                       { h \in Handles : /\ runs[h].rid = runId
                                          /\ runs[h].proc \in {"failing", "alive"} }
    /\ UNCHANGED <<uuidCount, nextTick, budget, handles>>

StopTool(runId) == StopToolHandled(runId) /\ UNCHANGED win

\* The child wrote text on a stream: recorded in the run's history.
childWrote(run, stream, text) ==
    [run EXCEPT !.emitted = Append(@, [stream |-> stream, text |-> text])]

\* A chunk arrives on the child's stdout.
StdoutDataHandled(h, text) ==
    /\ nextTick = << >>
    /\ runs[h].proc = "alive"
    /\ budget.chunks > 0
    /\ runs' = [runs EXCEPT ![h] = childWrote(onStdoutData(@, text), "stdout", text)]
    /\ budget' = [budget EXCEPT !.chunks = @ - 1]
    /\ UNCHANGED <<uuidCount, runningProcesses, nextTick, stopCalled, stopped, stoppedTwice, handles>>

StdoutData(h, text) == StdoutDataHandled(h, text) /\ UNCHANGED win

\* A chunk arrives on the child's stderr.
StderrDataHandled(h, text) ==
    /\ nextTick = << >>
    /\ runs[h].proc = "alive"
    /\ budget.chunks > 0
    /\ runs' = [runs EXCEPT ![h] = childWrote(onStderrData(@, text), "stderr", text)]
    /\ budget' = [budget EXCEPT !.chunks = @ - 1]
    /\ UNCHANGED <<uuidCount, runningProcesses, nextTick, stopCalled, stopped, stoppedTwice, handles>>

StderrData(h, text) == StderrDataHandled(h, text) /\ UNCHANGED win

\* The child's 'close' event: after the process has ended and its streams have
\* closed. A process ends by itself with an exit code, or by the signal of a
\* kill() with code null; a handle whose spawn failed closes with the error's code.
CloseCodes(run) ==
    IF run.proc = "errored" THEN {"-2"}
    ELSE ExitCodes \cup (IF run.killCalls > 0 THEN {"null"} ELSE {})

CloseEventHandled(h, code, file) ==
    /\ nextTick = << >>
    /\ runs[h].proc \in {"alive", "errored"}
    /\ code \in CloseCodes(runs[h])
    /\ LET st == onClose([run |-> runs[h], registry |-> runningProcesses,
                          tick |-> nextTick], code, file)
       IN  /\ runs' = [runs EXCEPT ![h] = [handlerReactions(st.run) EXCEPT !.file = file]]
           /\ runningProcesses' = st.registry
    /\ UNCHANGED <<uuidCount, nextTick, budget, stopCalled, stopped, stoppedTwice, handles>>

CloseEvent(h, code, file) == CloseEventHandled(h, code, file) /\ UNCHANGED win

\* The 'error' event of a handle whose spawn failed: the first entry of the
\* nextTick queue, which runs before any other handler.
ErrorEventHandled(h) ==
    /\ nextTick # << >>
    /\ h = Head(nextTick)
    /\ LET st == onError([run |-> runs[h], registry |-> runningProcesses,
                          tick |-> nextTick], <<"spawn node ENOENT">>)
       IN  /\ runs' = [runs EXCEPT ![h] = handlerReactions(st.run)]
           /\ runningProcesses' = st.registry
    /\ nextTick' = Tail(nextTick)
    /\ UNCHANGED <<uuidCount, budget, stopCalled, stopped, stoppedTwice, handles>>

ErrorEvent(h) == ErrorEventHandled(h) /\ UNCHANGED win

Next ==
    \/ \E input \in StartInputs, spawnOk \in BOOLEAN :
          StartToolRun(input.toolName, input.optionValues, spawnOk)
    \/ \E runId \in RunIds : StopTool(runId)
    \/ \E h \in Handles, text \in Chunks : StdoutData(h, text)
    \/ \E h \in Handles, text \in Chunks : StderrData(h, text)
    \/ \E h \in Handles, code \in ExitCodes \cup {"null", "-2"}, file \in {NoTrackingFile} :
          CloseEvent(h, code, file)
    \/ \E h \in Handles : ErrorEvent(h)

Spec == Init /\ [][Next]_vars

\* The translation of options: one call, of an ordinary tool with any mapping or
\* of the counting tool with any of its mappings; the counting tool is also
\* called while an ordinary tool without options is running.
CounterInputs ==
    { [toolName |-> TokensWordsCounter, optionValues |-> m] : m \in CounterMappings }

ArgInputs ==
    { [toolName |-> ToolJs, optionValues |-> m] : m \in Mappings(MaxOptions) }
    \cup CounterInputs

NextArgs ==
    \/ \E input \in ArgInputs :
          /\ runs = << >>
          /\ StartToolRun(input.toolName, input.optionValues, TRUE)
    \/ \E input \in CounterInputs :
          /\ Len(runs) = 1
          /\ runs[1].tool = ToolJs /\ runs[1].options = NoOptions
          /\ StartToolRun(input.toolName, input.optionValues, TRUE)

SpecArgs == Init /\ [][NextArgs]_vars

\* The created files: one call, its output, and its close with any tracking file.
NextFiles ==
    \/ \E input \in StartInputs, spawnOk \in BOOLEAN :
          /\ runs = << >>
          /\ StartToolRun(input.toolName, input.optionValues, spawnOk)
    \/ \E h \in Handles, text \in Chunks : StdoutData(h, text)
    \/ \E h \in Handles, text \in Chunks : StderrData(h, text)
    \/ \E h \in Handles, code \in ExitCodes \cup {"-2"}, file \in FilesFound :
          CloseEvent(h, code, file)
    \/ \E h \in Handles : ErrorEvent(h)

SpecFiles == Init /\ [][NextFiles]_vars

\* The child processes end: a created process exits or dies of its signal, and
\* Node then emits its close event; a queued nextTick callback runs.
Closes(h) ==
    /\ h \in Handles
    /\ \E code \in ExitCodes \cup {"null", "-2"} : CloseEvent(h, code, NoTrackingFile)

InitLive ==
    /\ uuidCount = 0
    /\ runs = << >>
    /\ runningProcesses = << >>
    /\ nextTick = << >>
    /\ stopped = {}
    /\ stoppedTwice = {}
    /\ budget = [runs |-> MaxLiveRuns, chunks |-> MaxLiveChunks]
    /\ stopCalled = {}
    /\ handles = {}
    /\ win = NoWindow

SpecLive ==
    /\ InitLive
    /\ [][Next]_vars
    /\ \A h \in 1 .. MaxLiveRuns : WF_vars(Closes(h))
    /\ WF_vars(\E h \in Handles : ErrorEvent(h))

\* The relay of output: fewer runs, more chunks, and chunks the
\* tokens_words_counter path filters.
RelayInputs ==
    { [toolName |-> ToolJs, optionValues |-> InputAndVerbose],
      [toolName |-> TokensWordsCounter, optionValues |-> InputAndVerbose],
      [toolName |-> TokensWordsCounter, optionValues |-> NoOptions],
      [toolName |-> ToolPy, optionValues |-> NoOptions] }

\* The tracking file is absent, or there and unreadable.
RelayFiles == { file \in TrackingFiles : ~(file.exists /\ file.readable) }

InitRelay ==
    /\ uuidCount = 0
    /\ runs = << >>
    /\ runningProcesses = << >>
    /\ nextTick = << >>
    /\ stopped = {}
    /\ stoppedTwice = {}
    /\ budget = [runs |-> MaxRelayRuns, chunks |-> MaxRelayChunks]
    /\ stopCalled = {}
    /\ handles = {}
    /\ win = NoWindow

NextRelay ==
    \/ \E input \in RelayInputs, spawnOk \in BOOLEAN :
          StartToolRun(input.toolName, input.optionValues, spawnOk)
    \/ \E runId \in RunIds : StopTool(runId)
    \/ \E h \in Handles, text \in Chunks : StdoutData(h, text)
    \/ \E h \in Handles, text \in RelayChunks : StderrData(h, text)
    \/ \E h \in Handles, code \in ExitCodes \cup {"null", "-2"}, file \in RelayFiles :
          CloseEvent(h, code, file)
    \/ \E h \in Handles : ErrorEvent(h)

SpecRelay == InitRelay /\ [][NextRelay]_vars

----------------------------------------------------------------------------
\* The tool window: its renderer script and its IPC with the main process.
\* The repository holds two scripts of the window: src/tool-setup-run.js, and
\* the script with the setup dialog at the head of src/unnamed/part_005.

SetupRun == "tool-setup-run"
SetupDialog == "setup-dialog"
Scripts == {SetupRun, SetupDialog}

\* The tool of the window (toolData.name) and the options gathered from its form.
WinTools == {ToolJs, GoneJs, ToolPy}
WinOptions == InputAndVerbose

\* The state of the script after DOMContentLoaded, with nothing in flight.
NewWindow(script, tool) ==
    [script |-> script,
     tool |-> tool,
     isRunning |-> FALSE,
     startTime |-> 0,               \* 0: null
     timerInterval |-> FALSE,       \* the interval of the elapsed time is set
     currentRunId |-> 0,            \* 0: null
     setupCompleted |-> FALSE,
     runBtnDisabled |-> (script = SetupDialog),
     setupBtnDisabled |-> FALSE,
     output |-> << >>,              \* outputElement.textContent, one entry per write
     listeners |-> [output |-> 0, finished |-> 0, error |-> 0],
     toMain |-> << >>,              \* ipcRenderer.invoke calls not yet handled
     channel |-> << >>,             \* replies and webContents.send messages not yet received
     sent |-> 0,                    \* messages the main process has sent
     clicks |-> 0,                  \* clicks so far; the clock of Date.now()
     starts |-> 0,                  \* startToolRun calls so far
     stopRequested |-> {},          \* history: the ids stopTool was called with
     received |-> << >>,            \* history: the messages received, in order
     dropped |-> << >>,             \* history: messages received with no listener
     appended |-> << >>,            \* history: number of the message of each append of
                                    \* a 'tool-output' text to the output
     finished |-> << >>]            \* history: number of the message of each call of a
                                    \* 'tool-finished' listener

\* A write to the output area.
Line(kind) == [kind |-> kind, n |-> 0, runId |-> 0]

\* webContents.send(type, { runId, ... }) and the reply of an invoke
send(w, type, runId, body) ==
    [w EXCEPT !.sent = @ + 1,
              !.channel = Append(@, [type |-> type, runId |-> runId,
                                     n |-> w.sent + 1, body |-> body])]

\* The logCallback of 'start-tool-run': one 'tool-output' per text.
RECURSIVE sendOutputs(_, _, _)
sendOutputs(w, runId, texts) ==
    IF texts = << >> THEN w
    ELSE sendOutputs(send(w, "tool-output", runId, texts[1]), runId, Tail(texts))

\* The message of the .then/.catch reaction.
sendReport(w, run) ==
    IF run.report.channel = "tool-finished"
    THEN send(w, "tool-finished", run.report.runId, <<run.result.code>>)
    ELSE send(w, "tool-error", run.report.runId, run.reason)

\* What a handler of the main process sent for a run: the texts it logged, then
\* the report if the handler settled the promise.
sendHandled(w, before, after) ==
    LET logged == sendOutputs(w, after.hid,
                      SubSeq(after.sink, Len(before.sink) + 1, Len(after.sink)))
    IN  IF after.report # before.report THEN sendReport(logged, after) ELSE logged

\* The Run button.
\* Variant: the handler does not test isRunning.
runBtnClick_noTest(w, now) ==
    IF w.script = SetupDialog /\ ~w.setupCompleted
    THEN [w EXCEPT !.output = Append(@, Line("Please complete Setup first."))]
    ELSE [w EXCEPT !.startTime = now,
                   !.isRunning = TRUE,
                   !.timerInterval = TRUE,
                   !.runBtnDisabled = TRUE,
                   !.setupBtnDisabled = TRUE,
                   !.output = << Line("Starting") >>,
                   !.starts = @ + 1,
                   !.toMain = Append(@, [type |-> "start-tool-run", runId |-> 0])]

runBtnClick(w, now) ==
    IF w.isRunning
    THEN [w EXCEPT !.output = Append(@, Line("Tool is already running!"))]
    ELSE IF w.script = SetupDialog /\ ~w.setupCompleted
    THEN [w EXCEPT !.output = Append(@, Line("Please complete Setup first."))]
    ELSE [w EXCEPT !.startTime = now,
                   !.isRunning = TRUE,
                   !.timerInterval = TRUE,
                   !.runBtnDisabled = TRUE,
                   !.setupBtnDisabled = TRUE,
                   !.output = << Line("Starting") >>,
                   !.starts = @ + 1,
                   !.toMain = Append(@, [type |-> "start-tool-run", runId |-> 0])]

\* The Run handler after `await startToolRun(...)`: it keeps the id and
\* registers its listeners; only the script with the dialog listens for errors.
onStartReply(w, runId) ==
    [w EXCEPT !.currentRunId = runId,
              !.listeners = [output |-> @.output + 1,
                             finished |-> @.finished + 1,
                             error |-> IF w.script = SetupDialog
                                       THEN @.error + 1 ELSE @.error]]

onToolOutput(w, data) ==
    [w EXCEPT !.output = Append(@, [kind |-> "text", n |-> data.n, runId |-> data.runId]),
              !.appended = Append(@, data.n)]

onToolFinished(w, result) ==
    [w EXCEPT !.isRunning = FALSE,
              !.timerInterval = FALSE,
              !.runBtnDisabled = FALSE,
              !.setupBtnDisabled = FALSE,
              !.output = Append(@, [kind |-> "Tool finished with exit code",
                                    n |-> result.n, runId |-> result.runId]),
              !.currentRunId = 0,
              !.finished = Append(@, result.n)]

onToolError(w, error) ==
    [w EXCEPT !.output = Append(@, [kind |-> "Error", n |-> error.n, runId |-> error.runId]),
              !.isRunning = FALSE,
              !.timerInterval = FALSE,
              !.runBtnDisabled = FALSE,
              !.setupBtnDisabled = FALSE,
              !.currentRunId = 0]

\* The Force Quit button of src/tool-setup-run.js, up to its await.
forceQuitBtnClick(w) ==
    IF w.isRunning /\ w.currentRunId # 0
    THEN [w EXCEPT !.toMain = Append(@, [type |-> "stop-tool", runId |-> w.currentRunId]),
                   !.stopRequested = @ \cup {w.currentRunId}]
    ELSE [w EXCEPT !.output = Append(@, Line("No tool currently running."))]

\* The Force Quit handler after `await stopTool(currentRunId)`: the value
\* stopTool returned is not looked at.
onStopReply(w) ==
    [w EXCEPT !.isRunning = FALSE,
              !.timerInterval = FALSE,
              !.runBtnDisabled = FALSE,
              !.setupBtnDisabled = FALSE,
              !.output = Append(@, Line("Tool execution forcefully terminated."))]

\* The Apply button of the setup dialog, with a valid form.
setupDialogApply(w) ==
    [w EXCEPT !.output = << Line("Ready to run") >>,
              !.runBtnDisabled = FALSE,
              !.setupCompleted = TRUE]

\* ipcRenderer.on(channel, listener) adds a listener at each call; a message is
\* given to every listener of its channel, in turn.
RECURSIVE outputListeners(_, _, _)
outputListeners(w, data, n) ==
    IF n = 0 THEN w ELSE outputListeners(onToolOutput(w, data), data, n - 1)

RECURSIVE finishedListeners(_, _, _)
finishedListeners(w, data, n) ==
    IF n = 0 THEN w ELSE finishedListeners(onToolFinished(w, data), data, n - 1)

RECURSIVE errorListeners(_, _, _)
errorListeners(w, data, n) ==
    IF n = 0 THEN w ELSE errorListeners(onToolError(w, data), data, n - 1)

ListenersOf(w, type) ==
    CASE type = "tool-output" -> w.listeners.output
      [] type = "tool-finished" -> w.listeners.finished
      [] type = "tool-error" -> w.listeners.error
      [] OTHER -> 1

\* The renderer receives a message or a reply.
receive(w, msg) ==
    LET got == [w EXCEPT !.received = Append(@, msg),
                         !.dropped = IF ListenersOf(w, msg.type) = 0
                                     THEN Append(@, msg) ELSE @]
    IN  CASE msg.type = "tool-output" -> outputListeners(got, msg, w.listeners.output)
          [] msg.type = "tool-finished" -> finishedListeners(got, msg, w.listeners.finished)
          [] msg.type = "tool-error" -> errorListeners(got, msg, w.listeners.error)
          [] msg.type = "start-reply" -> onStartReply(got, msg.runId)
          [] msg.type = "stop-reply" -> onStopReply(got)

\* A click on Run. The handler runs on every click event the button gets.
RunClick ==
    /\ win.clicks < MaxClicks
    /\ win.isRunning \/ win.starts < MaxWinRuns
    /\ win' = runBtnClick([win EXCEPT !.clicks = @ + 1], win.clicks + 1)
    /\ UNCHANGED <<uuidCount, runs, runningProcesses, nextTick, budget, stopCalled,
                   stopped, stoppedTwice, handles>>

\* A click on Force Quit in src/tool-setup-run.js. (In the script with the
\* dialog the button quits the application.)
ForceQuitClick ==
    /\ win.script = SetupRun
    /\ win.clicks < MaxClicks
    /\ win' = forceQuitBtnClick([win EXCEPT !.clicks = @ + 1])
    /\ UNCHANGED <<uuidCount, runs, runningProcesses, nextTick, budget, stopCalled,
                   stopped, stoppedTwice, handles>>

\* The setup dialog is opened with the Setup button and applied.
SetupApply ==
    /\ win.script = SetupDialog
    /\ ~win.setupBtnDisabled
    /\ win.clicks < MaxClicks
    /\ win' = setupDialogApply([win EXCEPT !.clicks = @ + 1])
    /\ UNCHANGED <<uuidCount, runs, runningProcesses, nextTick, budget, stopCalled,
                   stopped, stoppedTwice, handles>>

\* The renderer takes the next message of the main process.
Receive ==
    /\ win.channel # << >>
    /\ win' = receive([win EXCEPT !.channel = Tail(@)], Head(win.channel))
    /\ UNCHANGED <<uuidCount, runs, runningProcesses, nextTick, budget, stopCalled,
                   stopped, stoppedTwice, handles>>

\* The main process handles the 'start-tool-run' of the window: what runTool logs
\* during the call is sent first, then the handler returns its id, then the
\* .catch reaction of a call rejected at once sends 'tool-error'.
WinStartToolRun(spawnOk) ==
    /\ win.toMain # << >>
    /\ Head(win.toMain).type = "start-tool-run"
    /\ StartToolRunHandled(win.tool, WinOptions, spawnOk)
    /\ LET run == runs'[Len(runs')]
           logged == sendOutputs([win EXCEPT !.toMain = Tail(@)], run.hid, run.sink)
           replied == send(logged, "start-reply", run.hid, << >>)
       IN  win' = IF run.report # NoReport THEN sendReport(replied, run) ELSE replied

\* The main process handles the 'stop-tool' of the window.
WinStopTool ==
    /\ win.toMain # << >>
    /\ Head(win.toMain).type = "stop-tool"
    /\ StopToolHandled(Head(win.toMain).runId)
    /\ win' = send([win EXCEPT !.toMain = Tail(@)], "stop-reply",
                   Head(win.toMain).runId, << >>)

\* The handlers of the child processes, with what they send to the window. The
\* window treats the texts of both streams alike: the child writes on stdout,
\* and it ends with code 0 (or with the code of the failed spawn).
WinStdoutData(h, text) ==
    /\ StdoutDataHandled(h, text)
    /\ win' = sendHandled(win, runs[h], runs'[h])

WinCloseEvent(h, code) ==
    /\ CloseEventHandled(h, code, NoTrackingFile)
    /\ win' = sendHandled(win, runs[h], runs'[h])

WinErrorEvent(h) ==
    /\ ErrorEventHandled(h)
    /\ win' = sendHandled(win, runs[h], runs'[h])

InitWindow ==
    /\ uuidCount = 0
    /\ runs = << >>
    /\ runningProcesses = << >>
    /\ nextTick = << >>
    /\ stopped = {}
    /\ stoppedTwice = {}
    /\ budget = [runs |-> MaxWinRuns, chunks |-> MaxWinChunks]
    /\ stopCalled = {}
    /\ handles = {}
    /\ win \in { NewWindow(script, tool) : script \in Scripts, tool \in WinTools }

NextWindow ==
    \/ RunClick
    \/ ForceQuitClick
    \/ SetupApply
    \/ Receive
    \/ \E spawnOk \in BOOLEAN : WinStartToolRun(spawnOk)
    \/ WinStopTool
    \/ \E h \in Handles, text \in Chunks : WinStdoutData(h, text)
    \/ \E h \in Handles, code \in {"0", "-2"} : WinCloseEvent(h, code)
    \/ \E h \in Handles : WinErrorEvent(h)

SpecWindow == InitWindow /\ [][NextWindow]_vars

----------------------------------------------------------------------------
\* Properties.

Keys == DOMAIN runningProcesses

\* The handle was registered at some time.
EverRegistered(h) == \E p \in handles : p[2] = h

\* spawn was called for the run and the operating system created no process.
SpawnFailed(run) == run.proc # "none" /\ ~run.started

\* The name ends in '.js'.
HasJsSuffix(toolName) ==
    /\ Len(toolName) >= 3
    /\ SubSeq(toolName, Len(toolName) - 2, Len(toolName)) = <<".", "j", "s">>

\* The strings of a sink that deliver a chunk of the child's output.
IsChunkDelivery(text) ==
    \/ text \in Chunks
    \/ Len(text) > 1 /\ text[1] = "ERROR: " /\ Tail(text) \in Chunks

Deliveries(sink) == SelectSeq(sink, IsChunkDelivery)

\* C1: the id 'start-tool-run' returns is the key under which the run's process is
\* registered: while the process is live and unstopped, stopTool with that id
\* finds the process, signals it, removes it and returns true.
C1_ReturnedIdStopsRun ==
    \A h \in Handles :
        runs[h].proc = "alive" /\ h \notin stopCalled =>
            LET r == stopTool(runningProcesses, runs[h].hid) IN
            /\ r.ret
            /\ r.kill = {h}
            /\ runs[h].rid \notin DOMAIN r.registry

\* C2: a runId is a key of runningProcesses exactly from the spawn of its process
\* until the first of its close/error event and a stopTool call on it, and no
\* runId is ever associated with two process handles.
C2_RegisteredWhileLive ==
    /\ \A h \in Handles :
          MapGet(runningProcesses, runs[h].rid) = {h}
            <=> (runs[h].proc \in {"failing", "alive"} /\ h \notin stopCalled)
    /\ Keys \subseteq { runs[h].rid : h \in Handles }
    /\ \A p, q \in handles : p[1] = q[1] => p[2] = q[2]

C2_Witness ==
    \E h1, h2 \in Handles :
        /\ h1 # h2
        /\ runs[h1].proc = "alive" /\ runs[h1].rid \in Keys
        /\ runs[h2].proc = "alive" /\ h2 \in stopCalled /\ runs[h2].rid \notin Keys

\* C3: stopTool(runId) returns true exactly when runId is a key of the registry;
\* then it has called kill() on that process and the key is gone on return;
\* when it returns false the registry is unchanged and no process is signalled.
C3_StopToolContract ==
    [][\A runId \in RunIds :
          StopTool(runId) =>
             LET r == stopTool(runningProcesses, runId) IN
             /\ r.ret <=> runId \in Keys
             /\ r.ret =>
                   /\ runId \notin DOMAIN runningProcesses'
                   /\ \A h \in Handles :
                         runs'[h].killCalls =
                            runs[h].killCalls
                              + (IF runningProcesses[runId] = h THEN 1 ELSE 0)
             /\ ~r.ret =>
                   /\ runningProcesses' = runningProcesses
                   /\ \A h \in Handles : runs'[h].killCalls = runs[h].killCalls]_vars

C3_Witness ==
    \E h \in Handles :
        /\ runs[h].rid \in stopped
        /\ runs[h].rid \notin Keys
        /\ runs[h].killCalls = 1
        /\ runs[h].proc = "alive"

\* C4: once stopTool has run on a live run, its runId is out of the registry, and
\* the close event that follows completes its handler (the exit code is set and
\* the promise resolved with it) and leaves the runId out of the registry.
C4_CloseAfterStop ==
    \A h \in stopCalled :
        /\ runs[h].rid \notin Keys
        /\ runs[h].proc = "closed" =>
              /\ runs[h].code # "unset"
              /\ runs[h].promise = "resolved"
              /\ runs[h].result.code = runs[h].code

C4_Witness ==
    \E h \in stopCalled : runs[h].proc = "closed" /\ runs[h].promise = "resolved"

\* C5: after stopTool(runId) has returned true, no later stopTool(runId) returns
\* true: none has, and one made now would not.
C5_StoppedStaysStopped ==
    /\ stoppedTwice = {}
    /\ \A runId \in stopped : ~stopTool(runningProcesses, runId).ret

C5_Witness ==
    \E h1, h2 \in Handles :
        /\ h1 < h2
        /\ runs[h1].rid \in stopped
        /\ runs[h2].rid \in Keys

\* C6: once a run's exit code is set, no step delivers a further output chunk to
\* its sink, and no stopTool call on its runId returns true.
C6_TerminalOnceClosed ==
    [][\A h \in Handles :
          runs[h].code # "unset" =>
             /\ Deliveries(runs'[h].sink) = Deliveries(runs[h].sink)
             /\ runs[h].rid \in stopped' => runs[h].rid \in stopped
             /\ ~stopTool(runningProcesses', runs[h].rid).ret]_vars

C6_Witness ==
    \E h \in Handles :
        /\ runs[h].code = "0"
        /\ Deliveries(runs[h].sink) # << >>
        /\ \E g \in Handles : g > h /\ runs[g].proc = "alive"

C8_MissingToolNotFound ==
    \A h \in Handles :
        runs[h].tool \notin ToolsOnDisk =>
            /\ runs[h].promise = "rejected"
            /\ runs[h].reason = <<"Tool not found: ">> \o AppTools \o runs[h].tool
            /\ runs[h].proc = "none"
            /\ runs[h].argv = << >>
            /\ ~EverRegistered(h)

\* C8, amended: a tool name that ends in '.js' and has no file at its path is
\* rejected with the tool-not-found error, nothing is spawned and nothing
\* registered.
C8_MissingJsToolNotFound ==
    \A h \in Handles :
        HasJsSuffix(runs[h].tool) /\ runs[h].tool \notin ToolsOnDisk =>
            /\ runs[h].promise = "rejected"
            /\ runs[h].reason = <<"Tool not found: ">> \o AppTools \o runs[h].tool
            /\ runs[h].proc = "none"
            /\ runs[h].argv = << >>
            /\ ~EverRegistered(h)

C8_Witness ==
    \E h \in Handles :
        /\ HasJsSuffix(runs[h].tool)
        /\ runs[h].tool \notin ToolsOnDisk
        /\ runs[h].promise = "rejected"
        /\ Keys # {}

\* C9: a tool name that does not end in '.js' is rejected with the
\* unsupported-tool-type error, nothing is spawned and nothing registered.
C9_UnsupportedToolType ==
    \A h \in Handles :
        ~HasJsSuffix(runs[h].tool) =>
            /\ runs[h].promise = "rejected"
            /\ runs[h].reason = <<"Unsupported tool type: ">> \o runs[h].tool
            /\ runs[h].proc = "none"
            /\ runs[h].argv = << >>
            /\ ~EverRegistered(h)

C9_Witness ==
    \E h, g \in Handles :
        /\ ~HasJsSuffix(runs[h].tool) /\ runs[h].tool \in ToolsOnDisk
        /\ runs[h].promise = "rejected"
        /\ ~HasJsSuffix(runs[g].tool) /\ runs[g].tool \notin ToolsOnDisk
        /\ runs[g].promise = "rejected"

C16_StartReturnsBeforeCompletion ==
    [][\A h \in DOMAIN runs' :
          /\ runs'[h].returned
          /\ runs'[h].promise = "pending" => runs'[h].report.channel = "none"
          /\ runs'[h].promise = "resolved" =>
                runs'[h].report = [channel |-> "tool-finished", runId |-> runs'[h].hid]
          /\ runs'[h].promise = "rejected" =>
                runs'[h].report = [channel |-> "tool-error", runId |-> runs'[h].hid]
          /\ h \notin Handles /\ runs'[h].proc # "none" =>
                runs'[h].promise = "pending"
          /\ h \in Handles /\ runs[h].report.channel # "none" =>
                runs'[h].report = runs[h].report]_vars

C16_Witness ==
    \E h, g \in Handles :
        /\ runs[h].returned /\ runs[h].proc = "alive"
        /\ runs[h].promise = "pending" /\ runs[h].report.channel = "none"
        /\ runs[g].returned /\ runs[g].report.channel = "tool-finished"

\* C17: any two runTool calls get distinct run ids and distinct tracking-file
\* paths; two runs registered together are two entries with two handles; a chunk
\* of one run changes no other run, and the close of one run changes no other
\* run (resolves none) and removes no other run's entry.
C17_RunsAreIndependent ==
    [][/\ \A h, g \in DOMAIN runs' :
             h # g => /\ runs'[h].rid # runs'[g].rid
                      /\ runs'[h].tracking # runs'[g].tracking
                      /\ runs'[h].rid \in DOMAIN runningProcesses'
                            /\ runs'[g].rid \in DOMAIN runningProcesses'
                           => runningProcesses'[runs'[h].rid] # runningProcesses'[runs'[g].rid]
       /\ \A h \in Handles :
             \/ runs'[h].emitted # runs[h].emitted
             \/ runs[h].code = "unset" /\ runs'[h].code # "unset"
             => \A g \in Handles \ {h} :
                   /\ runs'[g] = runs[g]
                   /\ runs[g].rid \in Keys =>
                         /\ runs[g].rid \in DOMAIN runningProcesses'
                         /\ runningProcesses'[runs[g].rid] = runningProcesses[runs[g].rid]]_vars

C17_Witness ==
    \E h, g \in Handles :
        /\ h # g
        /\ runs[h].proc = "closed" /\ runs[h].promise = "resolved"
        /\ runs[h].stdout = << >>
        /\ runs[g].proc = "alive" /\ runs[g].promise = "pending"
        /\ runs[g].stdout # << >>
        /\ MapGet(runningProcesses, runs[g].rid) = {g}

\* C18: every runId in runningProcesses refers to a process handle that has
\* emitted neither its close nor its error event, however many runs are
\* registered together.
C18_NoRunOutlivesItsProcess ==
    \A runId \in Keys :
        /\ runningProcesses[runId] \in Handles
        /\ runs[runningProcesses[runId]].proc \in {"alive", "failing"}
        /\ runs[runningProcesses[runId]].code = "unset"
        /\ runs[runningProcesses[runId]].promise = "pending"

C18_Witness ==
    /\ Cardinality(Keys) = 2
    /\ \E h \in Handles : runs[h].proc = "alive" /\ runs[h].stdout # << >>
    /\ \E h \in Handles : runs[h].proc = "failing"

\* C22 as stated: two runTool calls with the same tool name and the same option
\* mapping have the same argv.
C22_SameInputsSameArgv ==
    \A h, g \in Handles :
        /\ runs[h].proc # "none" /\ runs[g].proc # "none"
        /\ runs[h].tool = runs[g].tool
        /\ runs[h].options = runs[g].options
        => runs[h].argv = runs[g].argv

\* C22, amended: two runTool calls with the same tool name and the same option
\* mapping have the same argv but for the value that follows the tracking
\* flag, which is each run's own tracking-file path.
C22_SameArgvButTrackingPath ==
    \A h, g \in Handles :
        /\ runs[h].proc # "none" /\ runs[g].proc # "none"
        /\ runs[h].tool = runs[g].tool
        /\ runs[h].options = runs[g].options
        => /\ Len(runs[h].argv) = Len(runs[g].argv)
           /\ \A i \in DOMAIN runs[h].argv :
                 IF i > 1 /\ runs[h].argv[i - 1] = <<"--", "output_tracking">>
                 THEN /\ runs[h].argv[i] = runs[h].tracking
                      /\ runs[g].argv[i] = runs[g].tracking
                      /\ h # g => runs[h].argv[i] # runs[g].argv[i]
                 ELSE runs[h].argv[i] = runs[g].argv[i]

C22_Witness ==
    \E h, g \in Handles :
        /\ h # g
        /\ runs[h].proc = "alive" /\ runs[g].proc = "alive"
        /\ runs[h].tool = ToolJs /\ runs[g].tool = ToolJs
        /\ runs[h].options = InputAndVerbose /\ runs[g].options = InputAndVerbose
        /\ Len(runs[h].argv) = 5

\* A handler of the handle's events runs in this step: a data handler, the close
\* handler or the error handler.
HandlerRuns(h) ==
    \/ runs'[h].emitted # runs[h].emitted
    \/ runs'[h].proc # runs[h].proc /\ runs'[h].proc \in {"closed", "errored"}

\* C28: the handle is stored under its runId before any of its events is
\* handled: no data, close or error handler of a run executes while the run has
\* not been added to runningProcesses.
C28_RegisteredBeforeAnyEvent ==
    [][\A h \in Handles :
          HandlerRuns(h) => <<runs[h].rid, h>> \in handles]_vars

C28_Witness ==
    /\ \E h \in Handles :
          /\ runs[h].proc = "closed" /\ runs[h].emitted # << >>
          /\ <<runs[h].rid, h>> \in handles
    /\ \E h \in Handles :
          /\ runs[h].proc = "errored"
          /\ <<runs[h].rid, h>> \in handles

\* C32: the promise of a run is settled at most once: once it is resolved or
\* rejected no step changes its state, its reason or its value; the handler of
\* the second of the error and close events of a process leaves the registry and
\* what was reported for the run as they were, and still delivers its messages
\* to the sink.
C32_SettledOnce ==
    [][\A h \in Handles :
          runs[h].promise # "pending" =>
             /\ runs'[h].promise = runs[h].promise
             /\ runs'[h].reason = runs[h].reason
             /\ runs'[h].result = runs[h].result
             /\ HandlerRuns(h) =>
                   /\ runningProcesses' = runningProcesses
                   /\ runs'[h].report = runs[h].report
                   /\ Len(runs'[h].sink) > Len(runs[h].sink)
                   /\ SubSeq(runs'[h].sink, 1, Len(runs[h].sink)) = runs[h].sink]_vars

\* The error of a failed spawn rejected the promise; the close that followed
\* delivered its two messages and changed nothing else.
C32_Witness ==
    \E h \in Handles :
        /\ runs[h].proc = "closed" /\ ~runs[h].started
        /\ runs[h].promise = "rejected" /\ runs[h].reason = <<"spawn node ENOENT">>
        /\ runs[h].code = "-2"
        /\ runs[h].report.channel = "tool-error"
        /\ runs[h].sink[Len(runs[h].sink)] = <<"\nTool finished with exit code: ", "-2">>
        /\ \E g \in Handles : g # h /\ runs[g].rid \in DOMAIN runningProcesses

\* The step leaves the run and its place in the registry as they were.
Untouched(h) ==
    /\ runs'[h] = runs[h]
    /\ runs[h].rid \in DOMAIN runningProcesses =>
          /\ runs[h].rid \in DOMAIN runningProcesses'
          /\ runningProcesses'[runs[h].rid] = runningProcesses[runs[h].rid]

\* C33: an operation on one run leaves every other run as it was: a step that
\* signals a run, handles its close or its error, delivers one of its chunks or
\* takes it out of the registry neither removes, signals, settles nor changes the
\* accumulators or the sink of any other run.
C33_OtherRunsUntouched ==
    [][\A g, h \in Handles :
          g # h /\ (\/ runs'[g] # runs[g]
                    \/ /\ runs[g].rid \in DOMAIN runningProcesses
                       /\ runs[g].rid \notin DOMAIN runningProcesses')
          => Untouched(h)]_vars

\* One run was stopped and closed with the code of a signal; the other is still
\* registered, alive and unsignalled, with the output it received.
C33_Witness ==
    \E g, h \in Handles :
        /\ g # h
        /\ runs[g].killCalls = 1 /\ runs[g].proc = "closed" /\ runs[g].code = "null"
        /\ runs[h].proc = "alive" /\ runs[h].killCalls = 0
        /\ runs[h].promise = "pending"
        /\ runs[h].stdout = <<"a">>
        /\ runs[h].rid \in DOMAIN runningProcesses

\* What the step delivers to the sink of run h, each delivery a 'tool-output'.
Delivered(h) ==
    SubSeq(runs'[h].sink, (IF h \in Handles THEN Len(runs[h].sink) ELSE 0) + 1,
           Len(runs'[h].sink))

ReportBefore(h) == IF h \in Handles THEN runs[h].report ELSE NoReport

\* C35 as stated: for each 'start-tool-run' call exactly one of 'tool-finished'
\* and 'tool-error' is sent, with the run id the call returned, and no
\* 'tool-output' of the run follows it.
C35_ReportIsLast ==
    [][\A h \in DOMAIN runs' :
          /\ runs'[h].report # NoReport => runs'[h].report.runId = runs'[h].hid
          /\ ReportBefore(h) # NoReport =>
                /\ runs'[h].report = runs[h].report
                /\ Delivered(h) = << >>]_vars

\* C35, amended: for each 'start-tool-run' call one of 'tool-finished' and
\* 'tool-error' is sent when the promise of the run settles, none before and
\* none after, with the run id the call returned; no 'tool-output' of the run
\* follows its 'tool-finished'; after a 'tool-error' the only 'tool-output'
\* messages of the run are those of the close handler of the failed process.
C35_ReportIsLastButClose ==
    [][\A h \in DOMAIN runs' :
          /\ (runs'[h].report = NoReport) <=> (runs'[h].promise = "pending")
          /\ runs'[h].report # NoReport =>
                /\ runs'[h].report.runId = runs'[h].hid
                /\ (runs'[h].report.channel = "tool-finished")
                      <=> (runs'[h].promise = "resolved")
          /\ ReportBefore(h) # NoReport =>
                /\ runs'[h].report = runs[h].report
                /\ runs[h].report.channel = "tool-finished" => Delivered(h) = << >>
                /\ Delivered(h) # << >> =>
                      /\ runs[h].code = "unset" /\ runs'[h].code # "unset"
                      /\ Delivered(h)[1] =
                            <<"\nProcess finished with return code ", runs'[h].code>>
                      /\ \A i \in DOMAIN Delivered(h) :
                            Delivered(h)[i][1] \in
                              { "\nProcess finished with return code ",
                                "\nTool finished with exit code: ",
                                "Error reading output files list: " }]_vars

\* A run resolved after its output, and a run whose failed process closed after
\* its 'tool-error'.
C35_Witness ==
    /\ \E h \in Handles :
          /\ runs[h].report = [channel |-> "tool-finished", runId |-> runs[h].hid]
          /\ runs[h].emitted # << >>
    /\ \E h \in Handles :
          /\ runs[h].report = [channel |-> "tool-error", runId |-> runs[h].hid]
          /\ runs[h].code = "-2"
          /\ Len(runs[h].sink) = 4

----------------------------------------------------------------------------
\* The relay of output (SpecRelay).

\* The strings of a sink that deliver a chunk of the child's output.
IsRelayDelivery(text) ==
    \/ text \in RelayChunks
    \/ Len(text) > 1 /\ text[1] = "ERROR: " /\ Tail(text) \in RelayChunks

RelayDeliveries(sink) == SelectSeq(sink, IsRelayDelivery)

\* The concatenation of the chunks written on a stream, in the order written.
RECURSIVE WrittenOn(_, _)
WrittenOn(emitted, stream) ==
    IF emitted = << >> THEN << >>
    ELSE (IF emitted[1].stream = stream THEN emitted[1].text ELSE << >>)
           \o WrittenOn(Tail(emitted), stream)

\* The form in which a written chunk reaches the sink.
AsDelivered(e) == IF e.stream = "stderr" THEN <<"ERROR: ">> \o e.text ELSE e.text

\* Each written chunk, once, in the order written, in its delivered form.
RECURSIVE EachOnce(_)
EachOnce(emitted) ==
    IF emitted = << >> THEN << >>
    ELSE <<AsDelivered(emitted[1])>> \o EachOnce(Tail(emitted))

\* A stderr chunk of tokens_words_counter that carries the module type warning.
IsTypelessWarning(run, e) ==
    /\ run.tool = <<"tokens_words_counter", ".", "j", "s">>
    /\ e.stream = "stderr"
    /\ \E i \in DOMAIN e.text : e.text[i] = "MODULE_TYPELESS_PACKAGE_JSON"

\* The written chunks without the module type warnings of tokens_words_counter.
RECURSIVE Unfiltered(_, _)
Unfiltered(run, emitted) ==
    IF emitted = << >> THEN << >>
    ELSE (IF IsTypelessWarning(run, emitted[1]) THEN << >> ELSE <<emitted[1]>>)
           \o Unfiltered(run, Tail(emitted))

\* C11 as stated: every chunk the child writes on stdout or stderr is appended
\* exactly once to the stream's accumulator and delivered exactly once to the
\* sink, on the general path and on the tokens_words_counter path alike.
C11_EveryChunkRelayed ==
    \A h \in Handles :
        /\ runs[h].stdout = WrittenOn(runs[h].emitted, "stdout")
        /\ runs[h].stderr = WrittenOn(runs[h].emitted, "stderr")
        /\ RelayDeliveries(runs[h].sink) = EachOnce(runs[h].emitted)

\* C11, amended: every chunk the child writes on stdout or stderr is appended
\* exactly once to the stream's accumulator; it is delivered exactly once to the
\* sink, except that on the tokens_words_counter path a stderr chunk containing
\* 'MODULE_TYPELESS_PACKAGE_JSON' is accumulated and not delivered.
C11_EveryChunkRelayedButWarnings ==
    \A h \in Handles :
        /\ runs[h].stdout = WrittenOn(runs[h].emitted, "stdout")
        /\ runs[h].stderr = WrittenOn(runs[h].emitted, "stderr")
        /\ RelayDeliveries(runs[h].sink) = EachOnce(Unfiltered(runs[h], runs[h].emitted))

C11_Witness ==
    \E h \in Handles :
        /\ runs[h].tool = TokensWordsCounter
        /\ runs[h].emitted = << [stream |-> "stderr", text |-> TypelessWarning],
                                [stream |-> "stdout", text |-> <<"a">>],
                                [stream |-> "stderr", text |-> <<"a">>] >>
        /\ runs[h].proc = "closed"

\* What a step appended to the sink of run h (a run the step starts had no sink).
SinkBefore(h) == IF h \in Handles THEN runs[h].sink ELSE << >>
EmittedBefore(h) == IF h \in Handles THEN runs[h].emitted ELSE << >>

\* The error messages of the runner itself.
IsRunnerError(text) ==
    /\ Len(text) > 1
    /\ text[1] = "ERROR: "
    /\ text[2] \in { "Cannot find tool at path: ", "Unsupported tool type: ",
                      "Missing required parameter input_file", "spawn node ENOENT" }

C13_ExitMessagesThenResolved ==
    [][\A h \in Handles :
          LET before == runs[h].sink
              after == runs'[h].sink
              new == SubSeq(after, Len(before) + 1, Len(after))
          IN  /\ runs[h].promise = "resolved" => after = before
              /\ runs[h].code # "unset" =>
                    RelayDeliveries(after) = RelayDeliveries(before)
              /\ runs[h].promise # "resolved" /\ runs'[h].promise = "resolved" =>
                    runs[h].code = "unset" /\ runs'[h].code # "unset"
              /\ runs[h].code = "unset" /\ runs'[h].code # "unset" =>
                    /\ after = before \o new
                    /\ Len(new) >= 2
                    /\ new[1] = <<"\nProcess finished with return code ", runs'[h].code>>
                    /\ new[2] = <<"\nTool finished with exit code: ", runs'[h].code>>
                    /\ RelayDeliveries(new) = << >>
                    /\ RelayDeliveries(before) =
                          EachOnce(Unfiltered(runs'[h], runs'[h].emitted))]_vars

C13_Witness ==
    \E h \in Handles :
        /\ runs[h].promise = "resolved"
        /\ runs[h].code = "1"
        /\ Len(runs[h].emitted) = 2
        /\ Len(runs[h].sink) = 6
        /\ runs[h].sink[4] = <<"\nProcess finished with return code ", "1">>
        /\ runs[h].sink[5] = <<"\nTool finished with exit code: ", "1">>
        /\ runs[h].sink[6] = <<"Error reading output files list: ", "EACCES">>

\* The strings of a sink that deliver a stdout chunk.
IsStdoutDelivery(text) == text \in RelayChunks

\* The concatenation of a sequence of strings.
RECURSIVE Concatenation(_)
Concatenation(texts) ==
    IF texts = << >> THEN << >> ELSE texts[1] \o Concatenation(Tail(texts))

\* C14: the stdout of a resolved run's result is the concatenation, in delivery
\* order, of the stdout chunks delivered to its sink, and its stderr is the
\* concatenation of the stderr chunks the run received.
C14_ResultIsConcatenation ==
    \A h \in Handles :
        runs[h].promise = "resolved" =>
            /\ runs[h].result.stdout =
                  Concatenation(SelectSeq(runs[h].sink, IsStdoutDelivery))
            /\ runs[h].result.stderr = WrittenOn(runs[h].emitted, "stderr")

C14_Witness ==
    \E h \in Handles :
        /\ runs[h].promise = "resolved"
        /\ runs[h].tool = TokensWordsCounter
        /\ runs[h].result.stdout = <<"a", "a">>
        /\ runs[h].result.stderr = TypelessWarning

\* The text carries the name of Node's module type warning.
HasTypelessName(text) == \E i \in DOMAIN text : text[i] = "MODULE_TYPELESS_PACKAGE_JSON"

\* C31: on the tokens_words_counter path the step that handles a stderr chunk
\* appends it to the stderr accumulator, and delivers it to the sink, prefixed
\* 'ERROR: ', iff its text does not contain 'MODULE_TYPELESS_PACKAGE_JSON'; the
\* stderr of the result of a resolved run holds every chunk, the suppressed
\* ones included.
C31_CounterStderrFiltered ==
    [][\A h \in Handles :
          runs[h].tool = <<"tokens_words_counter", ".", "j", "s">> =>
            /\ runs'[h].emitted # runs[h].emitted
                  /\ runs'[h].emitted[Len(runs'[h].emitted)].stream = "stderr" =>
                  LET text == runs'[h].emitted[Len(runs'[h].emitted)].text IN
                  /\ runs'[h].stderr = runs[h].stderr \o text
                  /\ runs'[h].stdout = runs[h].stdout
                  /\ runs'[h].sink = IF HasTypelessName(text)
                                     THEN runs[h].sink
                                     ELSE Append(runs[h].sink, <<"ERROR: ">> \o text)
            /\ runs'[h].promise = "resolved" =>
                  runs'[h].result.stderr = WrittenOn(runs'[h].emitted, "stderr")]_vars

\* A suppressed chunk between two delivered ones, all three in the result.
C31_Witness ==
    \E h \in Handles :
        /\ runs[h].tool = TokensWordsCounter
        /\ runs[h].promise = "resolved"
        /\ runs[h].emitted = << [stream |-> "stderr", text |-> <<"a">>],
                                [stream |-> "stderr", text |-> TypelessWarning],
                                [stream |-> "stderr", text |-> <<"a">>] >>
        /\ runs[h].result.stderr = <<"a">> \o TypelessWarning \o <<"a">>
        /\ Len(runs[h].sink) = 5

----------------------------------------------------------------------------
\* Completion (SpecLive).

\* C15: a run whose process was created and closes has its promise resolved in
\* the end with the stdout and stderr accumulated, and its runId out of
\* runningProcesses, whether or not stopTool ran on it before the close.
C15_CloseSettlesAndUnregisters ==
    \A h \in 1 .. MaxLiveRuns :
        (h \in Handles /\ runs[h].proc = "alive")
          ~> (/\ h \in Handles
              /\ runs[h].promise = "resolved"
              /\ runs[h].result.stdout = runs[h].stdout
              /\ runs[h].result.stderr = runs[h].stderr
              /\ runs[h].rid \notin Keys)

\* stopTool has returned and the process it signalled is still alive.
C15_Witness ==
    \E h \in stopCalled :
        /\ runs[h].proc = "alive"
        /\ runs[h].rid \notin Keys
        /\ runs[h].promise = "pending"
        /\ runs[h].stdout # << >>

----------------------------------------------------------------------------
\* The translation of options (SpecArgs).

\* The mapping the option loop goes through: the caller's, with the tracking file
\* under '--output_tracking' (in the place the caller's entry had, if any).
Translated(run) ==
    LET name == <<"--", "output_tracking">>
        value == [t |-> "string", b |-> FALSE, s |-> run.tracking]
        m == run.options
    IN  IF \E i \in DOMAIN m : m[i][1] = name
        THEN [i \in DOMAIN m |-> IF m[i][1] = name THEN <<name, value>> ELSE m[i]]
        ELSE m \o << <<name, value>> >>

\* The run went through the option loop of runJavaScriptTool.
ThroughOptionLoop(run) ==
    /\ run.proc # "none"
    /\ run.tool # <<"tokens_words_counter", ".", "j", "s">>

Dashed(name) == name # << >> /\ name[1] = "--"
Flag(name) == IF Dashed(name) THEN name ELSE <<"--">> \o name
AsText(value) ==
    IF value.t = "boolean" THEN (IF value.b THEN <<"true">> ELSE <<"false">>) ELSE value.s

RECURSIVE Sum(_)
Sum(numbers) == IF numbers = << >> THEN 0 ELSE numbers[1] + Sum(Tail(numbers))

Tokens(argv) == { argv[i] : i \in DOMAIN argv }

\* The number of tokens of an entry whose value is not a boolean.
ValueTokens(name) == IF name = <<"input_file">> THEN 1 ELSE 2

\* C19 as stated: whatever its name, an option whose value is false contributes
\* no token to argv and one whose value is true contributes exactly one token,
\* its flag.
C19_BooleanIsFlagOrNothing ==
    \A h \in Handles :
        ThroughOptionLoop(runs[h]) =>
            LET m == Translated(runs[h])
                stated == [i \in DOMAIN m |->
                             IF m[i][2].t = "boolean"
                             THEN (IF m[i][2].b THEN 1 ELSE 0)
                             ELSE ValueTokens(m[i][1])]
            IN  /\ Len(runs[h].argv) = 1 + Sum(stated)
                /\ \A i \in DOMAIN m :
                      m[i][2].t = "boolean" /\ m[i][2].b =>
                         Flag(m[i][1]) \in Tokens(runs[h].argv)

\* C19, amended: in the option loop an option whose name starts with '--'
\* contributes no token when its value is false and exactly one token, its
\* name, when its value is true; under any other name a boolean is passed as a
\* value, 'true' or 'false': after '--'+name, or alone for input_file.
C19_DashedBooleanIsFlagOrNothing ==
    \A h \in Handles :
        ThroughOptionLoop(runs[h]) =>
            LET m == Translated(runs[h])
                counted == [i \in DOMAIN m |->
                              IF m[i][2].t = "boolean" /\ Dashed(m[i][1])
                              THEN (IF m[i][2].b THEN 1 ELSE 0)
                              ELSE ValueTokens(m[i][1])]
            IN  /\ Len(runs[h].argv) = 1 + Sum(counted)
                /\ \A i \in DOMAIN m :
                      m[i][2].t = "boolean" =>
                         IF Dashed(m[i][1])
                         THEN m[i][2].b => m[i][1] \in Tokens(runs[h].argv)
                         ELSE AsText(m[i][2]) \in Tokens(runs[h].argv)
                /\ runs[h].options = << <<<<"--", "verbose">>, [t |-> "boolean", b |-> FALSE, s |-> << >>]>> >> =>
                      runs[h].argv = << AppTools \o runs[h].tool,
                                        <<"--", "output_tracking">>, runs[h].tracking >>

C19_Witness ==
    \E h \in Handles :
        /\ runs[h].options = << <<<<"--", "verbose">>, Bool(FALSE)>>,
                                <<<<"verbose">>, Bool(TRUE)>> >>
        /\ runs[h].argv = << AppTools \o ToolJs,
                             <<"--", "verbose">>, <<"true">>,
                             <<"--", "output_tracking">>, runs[h].tracking >>

\* The tokens the stated rules give for one entry.
RuleArgs(name, value) ==
    IF Dashed(name)
    THEN (IF value.t = "boolean"
          THEN (IF value.b THEN <<name>> ELSE << >>)
          ELSE <<name, AsText(value)>>)
    ELSE IF name = <<"input_file">>
         THEN <<AsText(value)>>
         ELSE << <<"--">> \o name, AsText(value) >>

RECURSIVE RulesInOrder(_)
RulesInOrder(mapping) ==
    IF mapping = << >> THEN << >>
    ELSE RuleArgs(mapping[1][1], mapping[1][2]) \o RulesInOrder(Tail(mapping))

\* C20: the option loop goes through the mapping in insertion order and applies
\* to each entry the first rule that matches: a name starting with '--' gives
\* the name alone for true, nothing for false, the name and String(value)
\* otherwise; input_file gives String(value) alone; output_file and every other
\* name give '--'+name and String(value); the script path is argv's first
\* element.
C20_RulesInInsertionOrder ==
    \A h \in Handles :
        ThroughOptionLoop(runs[h]) =>
            /\ runs[h].argv[1] = AppTools \o runs[h].tool
            /\ runs[h].argv = <<AppTools \o runs[h].tool>> \o RulesInOrder(Translated(runs[h]))

C20_Witness ==
    \E h \in Handles :
        /\ runs[h].options = << <<<<"output_file">>, Num(<<"7">>)>>,
                                <<<<"input_file">>, Str(<<"x">>)>> >>
        /\ runs[h].argv = << AppTools \o ToolJs,
                             <<"--", "output_file">>, <<"7">>, <<"x">>,
                             <<"--", "output_tracking">>, runs[h].tracking >>

\* The places of argv that hold the tracking flag.
TrackingFlags(argv) == { i \in DOMAIN argv : argv[i] = <<"--", "output_tracking">> }

\* C21: whatever options the caller supplied, the argv of a spawned run holds
\* exactly one tracking flag, followed by the tracking-file path generated for
\* the run.
C21_ExactlyOneTrackingPair ==
    \A h \in Handles :
        runs[h].proc # "none" =>
            /\ Cardinality(TrackingFlags(runs[h].argv)) = 1
            /\ \A i \in TrackingFlags(runs[h].argv) :
                  /\ i < Len(runs[h].argv)
                  /\ runs[h].argv[i + 1] = runs[h].tracking

\* The value the caller gave under a name, Absent when the name is not there.
Given(options, name) ==
    IF \E i \in DOMAIN options : options[i][1] = name
    THEN (CHOOSE e \in { options[i] : i \in DOMAIN options } : e[1] = name)[2]
    ELSE Absent

\* The value is there and is neither false nor the empty string.
IsSet(value) ==
    /\ value # Absent
    /\ value.t = "boolean" => value.b
    /\ value.t = "string" => value.s # << >>

IsCounterRun(run) == run.tool = <<"tokens_words_counter", ".", "j", "s">>

\* C29: the counting tool is spawned with exactly --no-warnings, the tool path,
\* --text_file and the input file, then --save_dir and its value iff save_dir is
\* truthy, --verbose iff verbose is truthy, and --output_tracking with the
\* tracking path of the run; no other option of the caller is in argv.
C29_CounterArgv ==
    \A h \in Handles :
        IsCounterRun(runs[h]) /\ runs[h].proc # "none" =>
            LET o == runs[h].options IN
            /\ runs[h].argv =
                  << <<"--", "no-warnings">>,
                     <<"/", "app", "/", "tools", "/">> \o runs[h].tool,
                     <<"--", "text_file">>,
                     Given(o, <<"input_file">>).s >>
                  \o (IF IsSet(Given(o, <<"save_dir">>))
                      THEN << <<"--", "save_dir">>, Given(o, <<"save_dir">>).s >>
                      ELSE << >>)
                  \o (IF IsSet(Given(o, <<"verbose">>))
                      THEN << <<"--", "verbose">> >>
                      ELSE << >>)
                  \o << <<"--", "output_tracking">>, runs[h].tracking >>
            /\ \A i \in DOMAIN runs[h].argv :
                  /\ runs[h].argv[i] # <<"o.txt">>
                  /\ runs[h].argv[i] # <<"--", "output_file">>

\* All three options set and a fourth the tool does not take.
C29_Witness ==
    \E h \in Handles :
        /\ IsCounterRun(runs[h]) /\ runs[h].proc = "alive"
        /\ Len(runs[h].options) = 4
        /\ IsSet(Given(runs[h].options, <<"save_dir">>))
        /\ IsSet(Given(runs[h].options, <<"verbose">>))
        /\ Len(runs[h].argv) = 9

\* A call is made in this step.
Called == Len(runs') = Len(runs) + 1

\* C30: a call of the counting tool whose input_file is missing or empty is
\* rejected with the missing-parameter error, with the 'ERROR:' message in the
\* sink; no process is spawned and runningProcesses is left as it was.
C30_MissingInputRejects ==
    [][Called /\ IsCounterRun(runs'[Len(runs')])
         /\ ~IsSet(Given(runs'[Len(runs')].options, <<"input_file">>))
       => LET run == runs'[Len(runs')] IN
          /\ run.promise = "rejected"
          /\ run.reason = <<"Missing required parameter: input_file">>
          /\ run.sink = << <<"ERROR: ", "Missing required parameter input_file">> >>
          /\ run.proc = "none" /\ run.argv = << >> /\ ~run.started
          /\ runningProcesses' = runningProcesses
          /\ nextTick' = nextTick]_vars

\* The counting tool was called with an empty input_file while another tool was
\* running, and with no input_file at all.
C30_Witness ==
    /\ Len(runs) = 2
    /\ runs[1].proc = "alive" /\ DOMAIN runningProcesses = {runs[1].rid}
    /\ IsCounterRun(runs[2]) /\ runs[2].promise = "rejected"
    /\ Given(runs[2].options, <<"input_file">>) = Str(<< >>)
    /\ runs[2].report.channel = "tool-error"

\* C34: runTool leaves the option mapping of its caller as it was: after any
\* call, spawned or rejected, the caller's mapping has the names and values, in
\* the order, it had before; the tracking entry goes to a copy.
C34_CallerOptionsUnchanged ==
    \A h \in Handles :
        /\ runs[h].caller = runs[h].options
        /\ Given(runs[h].options, <<"--", "output_tracking">>) = Absent =>
              Given(runs[h].caller, <<"--", "output_tracking">>) = Absent

\* A spawned call whose argv got the tracking pair, and a rejected call, both of
\* mappings without a tracking entry.
C34_Witness ==
    /\ Len(runs) = 2
    /\ runs[1].proc = "alive" /\ runs[1].caller = NoOptions
    /\ TrackingFlags(runs[1].argv) # {}
    /\ runs[2].promise = "rejected"
    /\ Len(runs[2].caller) = 3
    /\ Given(runs[2].caller, <<"--", "output_tracking">>) = Absent

----------------------------------------------------------------------------
\* The created files (SpecFiles).

\* A path made absolute from the working directory.
AbsolutePath(path) ==
    IF path # << >> /\ path[1] = "/" THEN path ELSE <<"/", "cwd">> \o path

\* The line is not blank and names a file that is there.
IsListedAndThere(line) ==
    /\ line.path # << >>
    /\ AbsolutePath(line.path) \in FilesOnDisk

\* The warning of a failed read is in the sink.
ReadWarned(sink) ==
    \E i \in DOMAIN sink : sink[i][1] = "Error reading output files list: "

\* C23: createdFiles is the list of the non-blank, trimmed lines of the tracking
\* file, each made absolute, without the paths that are not there, in the order
\* written; a path that is not there is left out without any error or warning.
C23_CreatedFilesAreListedAndThere ==
    \A h \in Handles :
        runs[h].proc = "closed" /\ runs[h].started
          /\ runs[h].file.exists /\ runs[h].file.readable =>
            LET kept == SelectSeq(runs[h].file.lines, IsListedAndThere) IN
            /\ runs[h].promise = "resolved"
            /\ Len(runs[h].result.createdFiles) = Len(kept)
            /\ \A i \in DOMAIN kept :
                  runs[h].result.createdFiles[i] = AbsolutePath(kept[i].path)
            /\ ~ReadWarned(runs[h].sink)

C23_Witness ==
    \E h \in Handles :
        /\ runs[h].proc = "closed" /\ runs[h].promise = "resolved"
        /\ runs[h].file.exists /\ runs[h].file.readable
        /\ runs[h].file.lines = << [pad |-> TRUE, path |-> <<"y.txt">>],
                                   [pad |-> TRUE, path |-> <<"/", "out", "never.txt">>],
                                   [pad |-> FALSE, path |-> <<"/", "out", "x.txt">>] >>
        /\ runs[h].result.createdFiles = << <<"/", "cwd", "y.txt">>, <<"/", "out", "x.txt">> >>

\* C24: when the tracking file is not there at the close of the process, the run
\* resolves with an empty createdFiles, and the sink receives the two messages
\* of the exit and no warning.
C24_NoTrackingFileNoFiles ==
    \A h \in Handles :
        runs[h].proc = "closed" /\ runs[h].started /\ ~runs[h].file.exists =>
            /\ runs[h].promise = "resolved"
            /\ runs[h].result.createdFiles = << >>
            /\ ~ReadWarned(runs[h].sink)
            /\ runs[h].sink[Len(runs[h].sink)] =
                  <<"\nTool finished with exit code: ", runs[h].code>>

C24_Witness ==
    \E h \in Handles :
        /\ runs[h].proc = "closed" /\ runs[h].started /\ ~runs[h].file.exists
        /\ runs[h].code = "1" /\ runs[h].stdout # << >>
        /\ runs[h].promise = "resolved"

\* C25: when the tracking file is there and reading it fails, the sink receives
\* a warning and the run is resolved, not rejected, with its exit code, the
\* stdout and stderr accumulated and an empty createdFiles.
C25_UnreadableTrackingFileWarns ==
    \A h \in Handles :
        runs[h].proc = "closed" /\ runs[h].started
          /\ runs[h].file.exists /\ ~runs[h].file.readable =>
            /\ ReadWarned(runs[h].sink)
            /\ runs[h].promise = "resolved"
            /\ runs[h].result.code = runs[h].code
            /\ runs[h].result.stdout = runs[h].stdout
            /\ runs[h].result.stderr = runs[h].stderr
            /\ runs[h].result.createdFiles = << >>

C25_Witness ==
    \E h \in Handles :
        /\ runs[h].proc = "closed" /\ runs[h].started
        /\ runs[h].file.exists /\ ~runs[h].file.readable
        /\ runs[h].code = "1" /\ runs[h].stderr # << >>
        /\ runs[h].result.stderr = runs[h].stderr
        /\ runs[h].sink[Len(runs[h].sink)] = <<"Error reading output files list: ", "EACCES">>

\* C27: a tool that exits with code 0, writes nothing to stdout or stderr and
\* leaves no tracking file gives the result with empty stdout, empty stderr,
\* empty createdFiles and code 0.
C27_SilentSuccess ==
    \A h \in Handles :
        /\ runs[h].proc = "closed" /\ runs[h].started
        /\ runs[h].code = "0" /\ runs[h].emitted = << >> /\ ~runs[h].file.exists
        => /\ runs[h].promise = "resolved"
           /\ runs[h].result =
                 [stdout |-> << >>, stderr |-> << >>, createdFiles |-> << >>, code |-> "0"]

C27_Witness ==
    \E h \in Handles :
        /\ runs[h].proc = "closed" /\ runs[h].started
        /\ runs[h].code = "0" /\ runs[h].emitted = << >> /\ ~runs[h].file.exists
        /\ runs[h].result.code = "0"
        /\ runs[h].report.channel = "tool-finished"

\* The sink received the message.
Said(sink, text) == \E i \in DOMAIN sink : sink[i] = text

\* The message the sink is owed for a rejection.
MessageOf(run) ==
    IF run.reason = <<"Unsupported tool type: ">> \o run.tool
    THEN <<"ERROR: ", "Unsupported tool type: ">> \o run.tool
    ELSE IF run.reason = <<"Tool not found: ">> \o AppTools \o run.tool
    THEN <<"ERROR: ", "Cannot find tool at path: ">> \o AppTools \o run.tool
    ELSE IF run.reason = <<"Missing required parameter: input_file">>
    THEN <<"ERROR: ", "Missing required parameter input_file">>
    ELSE <<"ERROR: ">> \o run.reason

\* C26: every error or warning outcome of a run (unsupported tool type, tool not
\* found, missing input_file, spawn error, unreadable tracking file) has its
\* message in the sink from the state in which the rejection or the result is
\* produced.
C26_ErrorsAndWarningsReachSink ==
    \A h \in Handles :
        /\ runs[h].promise = "rejected" => Said(runs[h].sink, MessageOf(runs[h]))
        /\ runs[h].report.channel = "tool-error" => runs[h].promise = "rejected"
        /\ runs[h].proc = "errored" => Said(runs[h].sink, <<"ERROR: ", "spawn node ENOENT">>)
        /\ runs[h].proc = "closed" /\ runs[h].file.exists /\ ~runs[h].file.readable
             => ReadWarned(runs[h].sink)

\* A spawn error, then the close of the handle with a tracking file that cannot
\* be read: the error and the warning are both in the sink.
C26_Witness ==
    \E h \in Handles :
        /\ runs[h].proc = "closed" /\ ~runs[h].started
        /\ runs[h].promise = "rejected"
        /\ runs[h].reason = <<"spawn node ENOENT">>
        /\ runs[h].file.exists /\ ~runs[h].file.readable
        /\ Said(runs[h].sink, <<"ERROR: ", "spawn node ENOENT">>)
        /\ ReadWarned(runs[h].sink)

----------------------------------------------------------------------------
\* The tool window (SpecWindow).

\* The step is the renderer receiving the first message in flight.
Receiving ==
    /\ win.channel # << >>
    /\ win'.channel = Tail(win.channel)
    /\ runs' = runs

\* The number, in call order, of the run a message belongs to.
RunOf(msg) == CHOOSE k \in Handles : runs[k].hid = msg.runId

\* The renderer is idle.
Idle(w) ==
    /\ ~w.isRunning /\ ~w.timerInterval
    /\ ~w.runBtnDisabled /\ ~w.setupBtnDisabled

\* How many times a number is in a sequence of numbers.
Count(seq, n) == Cardinality({ i \in DOMAIN seq : seq[i] = n })

\* C36: whenever isRunning is false no process started from the window is still
\* registered; once the Force Quit handler has completed, the process of the run
\* it stopped has been signalled and is out of the registry; at most one process
\* of the window is registered at any time.
C36_IdleMeansNothingRegistered ==
    /\ ~win.isRunning => DOMAIN runningProcesses = {}
    /\ Cardinality(DOMAIN runningProcesses) <= 1
    /\ \A i \in DOMAIN win.received :
          win.received[i].type = "stop-reply" =>
             LET run == runs[RunOf(win.received[i])] IN
             /\ run.rid \notin DOMAIN runningProcesses
             /\ run.proc = "alive" => run.killCalls > 0

\* C37: a 'tool-finished' or 'tool-output' message of an earlier run that was
\* force-stopped, received while a later run is in progress, leaves isRunning,
\* currentRunId, the Run and Setup buttons and the output as they are.
C37_EarlierRunIgnored ==
    [][Receiving
         /\ Head(win.channel).type \in {"tool-finished", "tool-output"}
         /\ Head(win.channel).runId \in win.stopRequested
         /\ RunOf(Head(win.channel)) < win.starts
         /\ win.isRunning
       => /\ win'.isRunning
          /\ win'.currentRunId = win.currentRunId
          /\ win'.runBtnDisabled = win.runBtnDisabled
          /\ win'.setupBtnDisabled = win.setupBtnDisabled
          /\ win'.output = win.output]_vars

\* C38: over the runs of a window each 'tool-output' message is appended to the
\* output exactly once and each 'tool-finished' message is handled exactly
\* once; the number of listeners does not grow with the runs.
C38_EachMessageHandledOnce ==
    /\ \A i \in DOMAIN win.received :
          LET msg == win.received[i] IN
          /\ msg.type = "tool-output" => Count(win.appended, msg.n) = 1
          /\ msg.type = "tool-finished" => Count(win.finished, msg.n) = 1
    /\ win.listeners.output <= 1
    /\ win.listeners.finished <= 1

\* Every call of the window has been handled and reported, and nothing is in
\* flight.
AllReported ==
    /\ win.toMain = << >> /\ win.channel = << >>
    /\ win.starts > 0 /\ Len(runs) = win.starts
    /\ \A h \in Handles : runs[h].report # NoReport

\* C39: once the main process has reported the outcome of every run and the
\* renderer has received what was sent, the renderer is idle, whether the run
\* ran or failed to start, the first run included; and no message of a run is
\* received before the listeners are there.
C39_ReportedMeansIdle ==
    /\ AllReported => Idle(win)
    /\ win.dropped = << >>

\* C40: a click on Run while isRunning is true does not call startToolRun: it
\* appends 'Tool is already running!' to the output and leaves isRunning,
\* currentRunId, startTime, the timer and the buttons as they are.
C40_RunClickWhileRunning ==
    [][RunClick /\ win.isRunning
       => /\ win'.output = Append(win.output, Line("Tool is already running!"))
          /\ win'.toMain = win.toMain
          /\ win'.starts = win.starts
          /\ win'.isRunning
          /\ win'.currentRunId = win.currentRunId
          /\ win'.startTime = win.startTime
          /\ win'.timerInterval = win.timerInterval
          /\ win'.runBtnDisabled = win.runBtnDisabled
          /\ win'.setupBtnDisabled = win.setupBtnDisabled
          /\ win'.listeners = win.listeners
          /\ runs' = runs]_vars

\* The click came while the run was there, its id known and its output shown.
C40_Witness ==
    /\ win.isRunning /\ win.currentRunId # 0
    /\ Len(runs) = 1 /\ runs[1].proc = "alive"
    /\ win.startTime = 1 /\ win.clicks = 2 /\ win.starts = 1
    /\ win.toMain = << >>
    /\ Len(win.output) > 1
    /\ win.output[Len(win.output)] = Line("Tool is already running!")

====
